---- MODULE Spec2Model ----
(***************************************************************************)
(* Model of the cell-sim lattice index, cell store, visibility updater,    *)
(* growth engine and generation-thread coordinator.                        *)
(*                                                                         *)
(* Sources: the dense OctahedronGrid (src/src/OctahedronGrid.h:1-227),     *)
(* TransformData (src/src/TransformData.h), RectangleBoundary and          *)
(* BoundaryManager (src/src/BoundaryManager.h) and the boundary-aware      *)
(* TruncatedOctahedraManager (src/unnamed/part_002:338-846).               *)
(*                                                                         *)
(* Lengths.  A Vector3 is a triple of integers counted in quarters of      *)
(* SQUARE_DISTANCE, so SQUARE_DISTANCE is 4, the half-cell step used by    *)
(* snapToGridPosition is 2, and positions that are not on the half-cell    *)
(* raster (odd components) exist and are moved by the snap.  Arithmetic on *)
(* these lengths is exact; roundf is round-half-away-from-zero.            *)
(***************************************************************************)
EXTENDS Integers, Sequences, FiniteSets, TLC

(***************************************************************************)
(* Program constants.                                                      *)
(***************************************************************************)
SQUARE_DISTANCE == 4

\* stands for the largest size_t: larger than every index and every cell id
SIZE_MAX == 2147483647

\* OctahedronGrid(length = 50, width = 50, height = 50)
DefaultGridDim == 50

\* "6 square + 8 hex neighbors", and isVisible = neighborCount < 14
FullNeighborCount == 14

MAX_BATCH_SIZE == 1000

\* SPAWN_CHANCE = 0.1f, in hundredths
SPAWN_CHANCE == 10

\* gridMargin = 1.2f, in tenths, and the "+ 10" slack of every grid dimension
GridMarginTenths == 12
GridSlack == 10

\* The boundary's lengths are floats in world units; the model counts them in
\* 1/10000 of a world unit.  A quarter of SQUARE_DISTANCE = 2 * 2.82842712475
\* is 1.4142 world units.
WorldUnit == 10000
QuarterLength == 14142

\* BoundaryManager(): 700 x 700 x 50 world units, the corner 10 units off the
\* origin
DefaultBoundaryWidth == 700 * WorldUnit
DefaultBoundaryDepth == 700 * WorldUnit
DefaultBoundaryHeight == 50 * WorldUnit
BoundaryCornerOffset == 10 * WorldUnit

\* RectangleBoundary::resize: resizeSpeed = 10.0f, and the 50.0f floor of
\* width and depth
ResizeSpeed == 10 * WorldUnit
MinBoundarySize == 50 * WorldUnit

(***************************************************************************)
(* Bounds of the model.                                                    *)
(***************************************************************************)
\* addOctahedron and growth ticks are offered while the store is below this
MaxCells == 2
\* the leading entries of `available` that a candidate may pick (besides the last)
MaxPick == 1
MaxGridIds == 2
\* the resize steps of ResizeSpeed the width and the depth are let to differ
\* from their defaults
MaxResizeSteps == 1
\* the lattice coordinates given to the mapper lie in [-MaxCoordinate, MaxCoordinate]
MaxCoordinate == 3
\* the positions one generateCellBatch call appends, and all calls together
MaxBatch == 2
MaxAppended == 2

(***************************************************************************)
(* Arithmetic helpers.                                                     *)
(***************************************************************************)
\* roundf(n / d) for integers n and d > 0: ties go away from zero
roundf(n, d) ==
    IF n >= 0 THEN (2 * n + d) \div (2 * d)
              ELSE -((2 * (-n) + d) \div (2 * d))

Min(a, b) == IF a < b THEN a ELSE b

Range(s) == {s[i] : i \in 1..Len(s)}

RECURSIVE SeqOfSet(_)
\* the elements of a finite set of integers as an ascending sequence
SeqOfSet(S) ==
    IF S = {} THEN <<>>
    ELSE LET m == CHOOSE x \in S : \A y \in S : x <= y
         IN <<m>> \o SeqOfSet(S \ {m})

(***************************************************************************)
(* LatticeCoordinate mapper (OctahedronGrid, static part).                 *)
(***************************************************************************)
\* snapToGridPosition: each component to the nearest multiple of half a cell
snapToGridPosition(position) ==
    LET halfSquareDist == SQUARE_DISTANCE \div 2
    IN  << roundf(position[1], halfSquareDist) * halfSquareDist,
           roundf(position[2], halfSquareDist) * halfSquareDist,
           roundf(position[3], halfSquareDist) * halfSquareDist >>

\* positionToCoordinates: y counts half-cell layers; odd layers are shifted
\* by half a cell in x and z before x and z are rounded to whole cells
layerCoordinates(pos, y) ==
    LET shift == IF y % 2 # 0 THEN SQUARE_DISTANCE \div 2 ELSE 0
    IN  << roundf(pos[1] - shift, SQUARE_DISTANCE), y, roundf(pos[3] - shift, SQUARE_DISTANCE) >>

positionToCoordinates(pos) == layerCoordinates(pos, roundf(2 * pos[2], SQUARE_DISTANCE))

\* coordinatesToPosition without the shift of the odd layers
coordinatesToPositionUnshifted(x, y, z) ==
    << x * SQUARE_DISTANCE, (y * SQUARE_DISTANCE) \div 2, z * SQUARE_DISTANCE >>

\* coordinatesToPosition: the inverse placement, with the odd-layer shift
coordinatesToPosition(x, y, z) ==
    LET worldX == x * SQUARE_DISTANCE
        worldZ == z * SQUARE_DISTANCE
        worldY == (y * SQUARE_DISTANCE) \div 2
    IN  IF y % 2 # 0
        THEN << worldX + SQUARE_DISTANCE \div 2, worldY, worldZ + SQUARE_DISTANCE \div 2 >>
        ELSE << worldX, worldY, worldZ >>

(***************************************************************************)
(* Lattice index: the dense OctahedronGrid.  A grid value g has the fields *)
(* gridLength, gridWidth, gridHeight, cells and indexToPositionMap.  The   *)
(* vector `grid` of the class has gridLength * gridWidth * gridHeight      *)
(* slots; cells holds the slots whose cellIndex is not SIZE_MAX, every     *)
(* other slot being the filler {SIZE_MAX, {0, 0, 0}} of resizeGrid.        *)
(***************************************************************************)
EmptySlot == [cellIndex |-> SIZE_MAX, position |-> <<0, 0, 0>>]

\* grid.size()
GridSize(g) == g.gridLength * g.gridWidth * g.gridHeight

\* grid[index], for index < grid.size()
SlotAt(g, index) == IF index \in DOMAIN g.cells THEN g.cells[index] ELSE EmptySlot

\* OctahedronGrid(length, width, height)
NewOctahedronGrid(length, width, height) ==
    [gridLength |-> length, gridWidth |-> width, gridHeight |-> height,
     cells |-> <<>>, indexToPositionMap |-> <<>>]

\* resizeGrid: std::vector::resize keeps the slots below the new size where
\* they are and fills the rest
resizeGrid(g, length, width, height) ==
    [g EXCEPT !.gridLength = length, !.gridWidth = width, !.gridHeight = height,
              !.cells = [i \in {j \in DOMAIN g.cells : j < length * width * height}
                            |-> g.cells[i]]]

\* isValidCoordinate without the test of z against gridWidth
isValidCoordinateOpenZ(g, x, y, z) ==
    /\ x >= 0 /\ x < g.gridLength
    /\ y >= 0 /\ y < g.gridHeight
    /\ z >= 0

isValidCoordinate(g, x, y, z) ==
    /\ x >= 0 /\ x < g.gridLength
    /\ y >= 0 /\ y < g.gridHeight
    /\ z >= 0 /\ z < g.gridWidth

\* positionToIndex with the row stride taken from gridWidth
coordinatesToIndexByWidth(g, c) ==
    IF ~isValidCoordinate(g, c[1], c[2], c[3]) THEN SIZE_MAX
    ELSE (c[2] * g.gridLength * g.gridWidth) + (c[3] * g.gridWidth) + c[1]

\* the second half of positionToIndex, from the coordinates [x, y, z]
coordinatesToIndex(g, c) ==
    IF ~isValidCoordinate(g, c[1], c[2], c[3]) THEN SIZE_MAX
    ELSE (c[2] * g.gridLength * g.gridWidth) + (c[3] * g.gridLength) + c[1]

positionToIndex(g, pos) == coordinatesToIndex(g, positionToCoordinates(pos))

\* insert whose reverse map keeps the first position of a cell index
insertAtKeepFirst(g, snappedPos, index, cellIndex) ==
    IF index >= GridSize(g) THEN g
    ELSE [g EXCEPT
            !.cells = (index :> [cellIndex |-> cellIndex, position |-> snappedPos])
                          @@ g.cells,
            !.indexToPositionMap = g.indexToPositionMap @@ (cellIndex :> snappedPos)]

\* insert: the slot and the reverse map are written whenever the position is
\* inside the grid; the slot's previous content is not looked at
insertAt(g, snappedPos, index, cellIndex) ==
    IF index >= GridSize(g) THEN g
    ELSE [g EXCEPT
            !.cells = (index :> [cellIndex |-> cellIndex, position |-> snappedPos])
                          @@ g.cells,
            !.indexToPositionMap = (cellIndex :> snappedPos) @@ g.indexToPositionMap]

insertSnapped(g, snappedPos, cellIndex) ==
    insertAt(g, snappedPos, positionToIndex(g, snappedPos), cellIndex)

insert(g, worldPos, cellIndex) == insertSnapped(g, snapToGridPosition(worldPos), cellIndex)

\* the slot test of isOccupied, from the index of the snapped position
slotOccupied(g, index) ==
    IF index >= GridSize(g) THEN FALSE ELSE SlotAt(g, index).cellIndex # SIZE_MAX

isOccupied(g, worldPos) == slotOccupied(g, positionToIndex(g, snapToGridPosition(worldPos)))

\* the six "square face" coordinates, in the order of squareDirs
squareDirs(c) ==
    LET x == c[1]
        y == c[2]
        z == c[3]
    IN  << <<x - 1, y, z>>, <<x + 1, y, z>>, <<x, y, z - 1>>,
           <<x, y, z + 1>>, <<x, y - 1, z>>, <<x, y + 1, z>> >>

\* the eight "hexagonal face" coordinates, in the order of hexDirs
hexDirs(c) ==
    LET x == c[1]
        y == c[2]
        z == c[3]
    IN  << <<x - 1, y + 1, z - 1>>, <<x, y + 1, z - 1>>, <<x, y + 1, z>>, <<x - 1, y + 1, z>>,
           <<x - 1, y - 1, z - 1>>, <<x, y - 1, z - 1>>, <<x, y - 1, z>>, <<x - 1, y - 1, z>> >>

\* the body of the two loops of getNeighborPositions for one coordinate n
\* whose position is neighborPos: the neighbours it pushes
keepNeighbor(g, n, neighborPos, filterOccupied) ==
    IF /\ isValidCoordinate(g, n[1], n[2], n[3])
       /\ (~filterOccupied \/ ~isOccupied(g, neighborPos))
    THEN <<neighborPos>> ELSE <<>>

RECURSIVE KeepNeighbors(_, _, _)
\* the two loops of getNeighborPositions, over the coordinates they visit
KeepNeighbors(g, dirs, filterOccupied) ==
    IF dirs = <<>> THEN <<>>
    ELSE keepNeighbor(g, Head(dirs),
                      coordinatesToPosition(Head(dirs)[1], Head(dirs)[2], Head(dirs)[3]),
                      filterOccupied)
             \o KeepNeighbors(g, Tail(dirs), filterOccupied)

\* getNeighborPositions, from the coordinates [x, y, z] of the snapped position
neighborsOfCoordinates(g, c, filterOccupied) ==
    KeepNeighbors(g, squareDirs(c) \o hexDirs(c), filterOccupied)

getNeighborPositions(g, pos, filterOccupied) ==
    neighborsOfCoordinates(g, positionToCoordinates(snapToGridPosition(pos)), filterOccupied)

\* the body of the loop of getOccupiedNeighbors: the slot it pushes
occupiedSlot(g, index) ==
    IF index < GridSize(g) /\ SlotAt(g, index).cellIndex # SIZE_MAX
    THEN <<SlotAt(g, index)>> ELSE <<>>

RECURSIVE OccupiedAmong(_, _)
\* the loop of getOccupiedNeighbors over neighborPositions
OccupiedAmong(g, neighborPositions) ==
    IF neighborPositions = <<>> THEN <<>>
    ELSE occupiedSlot(g, positionToIndex(g, Head(neighborPositions)))
             \o OccupiedAmong(g, Tail(neighborPositions))

getOccupiedNeighbors(g, pos) == OccupiedAmong(g, getNeighborPositions(g, pos, FALSE))

getAvailableNeighbors(g, pos) == getNeighborPositions(g, pos, TRUE)

\* the slot read of findCellIndex, from the index of the snapped position
cellIndexAt(g, index) ==
    IF index >= GridSize(g) THEN SIZE_MAX ELSE SlotAt(g, index).cellIndex

findCellIndex(g, worldPos) == cellIndexAt(g, positionToIndex(g, snapToGridPosition(worldPos)))

getPositionForIndex(g, cellIndex) ==
    IF cellIndex \in DOMAIN g.indexToPositionMap
    THEN g.indexToPositionMap[cellIndex] ELSE <<0, 0, 0>>

(***************************************************************************)
(* Cell store: TransformData.  Cell id i is element i + 1 of both columns. *)
(***************************************************************************)
NewTransformData == [is_visible |-> <<>>, neighbor_counts |-> <<>>]

\* TransformData::add
add(t) == [is_visible |-> Append(t.is_visible, TRUE),
           neighbor_counts |-> Append(t.neighbor_counts, 0)]

\* TransformData::size
size(t) == Len(t.is_visible)

setVisibility(t, index, visible) == [t EXCEPT !.is_visible[index + 1] = visible]

isVisible(t, index) == t.is_visible[index + 1]

setNeighborCount(t, index, count) == [t EXCEPT !.neighbor_counts[index + 1] = count]

getNeighborCount(t, index) == t.neighbor_counts[index + 1]

(***************************************************************************)
(* Boundary predicate: RectangleBoundary and BoundaryManager.              *)
(***************************************************************************)
\* RectangleBoundary(center, width, depth, height)
NewRectangleBoundary(center, width, depth, height) ==
    [center |-> center, width |-> width, depth |-> depth, height |-> height,
     isResizable |-> TRUE]

\* a Vector3 component of the lattice (quarter-cells) in the boundary's unit
worldLength(q) == q * QuarterLength

\* RectangleBoundary::contains
contains(b, point) ==
    /\ worldLength(point[1]) >= b.center[1] - b.width \div 2
    /\ worldLength(point[1]) <= b.center[1] + b.width \div 2
    /\ worldLength(point[2]) >= b.center[2] - b.height \div 2
    /\ worldLength(point[2]) <= b.center[2] + b.height \div 2
    /\ worldLength(point[3]) >= b.center[3] - b.depth \div 2
    /\ worldLength(point[3]) <= b.center[3] + b.depth \div 2

\* BoundaryManager()
NewBoundaryManager ==
    [boundary |-> NewRectangleBoundary(
                      << DefaultBoundaryWidth \div 2 + BoundaryCornerOffset,
                         DefaultBoundaryHeight \div 2 + BoundaryCornerOffset,
                         DefaultBoundaryDepth \div 2 + BoundaryCornerOffset >>,
                      DefaultBoundaryWidth, DefaultBoundaryDepth, DefaultBoundaryHeight),
     boundaryEnabled |-> TRUE]

\* BoundaryManager::isPointWithinBoundary
isPointWithinBoundary(bm, point) ==
    IF ~bm.boundaryEnabled THEN TRUE ELSE contains(bm.boundary, point)

Max(a, b) == IF a > b THEN a ELSE b

\* RectangleBoundary::lockSize
lockSize(b) == [b EXCEPT !.isResizable = FALSE]

\* RectangleBoundary::resize: the width after the `right` and `left` tests,
\* and likewise the depth after `up` and `down`
resizedLength(length, grow, shrink) ==
    LET grown == IF grow THEN length + ResizeSpeed ELSE length
    IN  IF shrink THEN Max(MinBoundarySize, grown - ResizeSpeed) ELSE grown

\* RectangleBoundary::resize: the new center
recentered(b) ==
    [b EXCEPT !.center = << b.width \div 2 + BoundaryCornerOffset,
                            b.height \div 2 + BoundaryCornerOffset,
                            b.depth \div 2 + BoundaryCornerOffset >>]

\* RectangleBoundary::resize
resize(b, right, left, up, down) ==
    IF ~b.isResizable THEN b
    ELSE recentered([b EXCEPT !.width = resizedLength(b.width, right, left),
                              !.depth = resizedLength(b.depth, up, down)])

\* BoundaryManager::handleResizing, the four keys being its input
handleResizing(bm, right, left, up, down) ==
    IF ~bm.boundary.isResizable THEN bm
    ELSE IF right \/ left \/ up \/ down
         THEN [bm EXCEPT !.boundary = resize(bm.boundary, right, left, up, down)]
         ELSE bm

\* setBoundaryWidth without the canResize() test
setBoundaryWidthAlways(bm, width) ==
    [bm EXCEPT !.boundary = NewRectangleBoundary(bm.boundary.center, width,
                                bm.boundary.depth, bm.boundary.height)]

\* BoundaryManager::setBoundaryWidth: a new boundary is made, same center
setBoundaryWidth(bm, width) ==
    IF bm.boundary.isResizable
    THEN [bm EXCEPT !.boundary = NewRectangleBoundary(bm.boundary.center, width,
                                     bm.boundary.depth, bm.boundary.height)]
    ELSE bm

\* BoundaryManager::setBoundaryDepth
setBoundaryDepth(bm, depth) ==
    IF bm.boundary.isResizable
    THEN [bm EXCEPT !.boundary = NewRectangleBoundary(bm.boundary.center,
                                     bm.boundary.width, depth, bm.boundary.height)]
    ELSE bm

\* BoundaryManager::setBoundaryHeight
setBoundaryHeight(bm, height) ==
    IF bm.boundary.isResizable
    THEN [bm EXCEPT !.boundary = NewRectangleBoundary(bm.boundary.center,
                                     bm.boundary.width, bm.boundary.depth, height)]
    ELSE bm

\* BoundaryManager::lockBoundarySize
lockBoundarySize(bm) == [bm EXCEPT !.boundary = lockSize(bm.boundary)]

\* BoundaryManager::setBoundaryEnabled
setBoundaryEnabled(bm, enabled) == [bm EXCEPT !.boundaryEnabled = enabled]

\* BoundaryManager::toggleBoundaryEnabled
toggleBoundaryEnabled(bm) == [bm EXCEPT !.boundaryEnabled = ~bm.boundaryEnabled]

(***************************************************************************)
(* TruncatedOctahedraManager: the sequential operations, as functions of   *)
(* the manager's cell data m = [transforms, grid] and its boundary manager.*)
(***************************************************************************)
\* addOctahedron that reads transforms.size() after the append
addSnappedNextId(m, bm, snappedPos) ==
    IF ~isOccupied(m.grid, snappedPos) /\ isPointWithinBoundary(bm, snappedPos)
    THEN [transforms |-> add(m.transforms),
          grid |-> insert(m.grid, snappedPos, size(add(m.transforms)))]
    ELSE m

\* addOctahedron
\* the body of addOctahedron, from the snapped position
addSnapped(m, bm, snappedPos) ==
    IF ~isOccupied(m.grid, snappedPos) /\ isPointWithinBoundary(bm, snappedPos)
    THEN [transforms |-> add(m.transforms),
          grid |-> insert(m.grid, snappedPos, size(m.transforms))]
    ELSE m

addOctahedron(m, bm, pos) == addSnapped(m, bm, snapToGridPosition(pos))

RECURSIVE addAll(_, _, _)
\* for (const auto &p: positions) addOctahedron(p);
\* (the comparison makes TLC compute each step before it descends)
addAll(m, bm, positions) ==
    IF positions = <<>> THEN m
    ELSE CHOOSE result \in { addAll(next, bm, Tail(positions))
                             : next \in {addOctahedron(m, bm, Head(positions))} } : TRUE

\* updateCellVisibility
\* the two writes of updateCellVisibility with <= in place of <
setCellVisibilityInclusive(m, idx, neighborCount) ==
    [m EXCEPT !.transforms =
        setNeighborCount(setVisibility(m.transforms, idx, neighborCount <= FullNeighborCount),
                         idx, neighborCount)]

\* the two writes of updateCellVisibility, from neighbors.size()
setCellVisibility(m, idx, neighborCount) ==
    [m EXCEPT !.transforms =
        setNeighborCount(setVisibility(m.transforms, idx, neighborCount < FullNeighborCount),
                         idx, neighborCount)]

\* updateCellVisibility with the available neighbours counted in place of
\* the occupied ones
updateCellVisibilityAvailable(m, idx) ==
    setCellVisibility(m, idx,
        Len(getAvailableNeighbors(m.grid, getPositionForIndex(m.grid, idx))))

updateCellVisibility(m, idx) ==
    setCellVisibility(m, idx,
        Len(getOccupiedNeighbors(m.grid, getPositionForIndex(m.grid, idx))))

\* updateCellVisibility for each index of a list.  The calls read the grid,
\* which none of them writes, and each writes only its own cell's entries,
\* so every listed cell ends with what its own call computes.
updateCells(m, indices) ==
    CHOOSE result \in
        { [m EXCEPT !.transforms =
              [is_visible |-> [i \in 1..size(m.transforms) |-> isVisible(cell[i], i - 1)],
               neighbor_counts |->
                   [i \in 1..size(m.transforms) |-> getNeighborCount(cell[i], i - 1)]]]
          : cell \in { [i \in 1..size(m.transforms) |->
                           IF (i - 1) \in Range(indices)
                           THEN updateCellVisibility(m, i - 1).transforms
                           ELSE m.transforms] } } : TRUE

\* updateVisibility: the full rescan over iota(0, transforms.size())
updateVisibility(m) == updateCells(m, [i \in 1..size(m.transforms) |-> i - 1])

RECURSIVE foundCells(_, _)
\* the ids findCellIndex returns for a list of positions, SIZE_MAX left out
foundCells(g, positions) ==
    IF positions = <<>> THEN <<>>
    ELSE SelectSeq(<<findCellIndex(g, Head(positions))>>, LAMBDA idx : idx # SIZE_MAX)
             \o foundCells(g, Tail(positions))

\* processedNeighbors of one chunk: the ids found at the neighbour positions
\* of the chunk's positions
processedNeighbors(g, chunk) ==
    UNION { Range(foundCells(g, getNeighborPositions(g, chunk[i], FALSE)))
            : i \in 1..Len(chunk) }

\* one chunk of updateVisibilityForNewCells: the chunk's own cells, then the
\* cells found at their neighbour positions
updateChunk(m, chunk) ==
    updateCells(updateCells(m, foundCells(m.grid, chunk)),
                SeqOfSet(processedNeighbors(m.grid, chunk)))

RECURSIVE updateVisibilityFrom(_, _, _)
\* the chunk loop of updateVisibilityForNewCells, from startIdx (0-based)
updateVisibilityFrom(m, newPositions, startIdx) ==
    IF startIdx >= Len(newPositions) THEN m
    ELSE updateVisibilityFrom(
             updateChunk(m, SubSeq(newPositions, startIdx + 1,
                                   startIdx + Min(MAX_BATCH_SIZE, Len(newPositions) - startIdx))),
             newPositions, startIdx + MAX_BATCH_SIZE)

\* updateVisibilityForNewCells: the incremental update
updateVisibilityForNewCells(m, newPositions) == updateVisibilityFrom(m, newPositions, 0)

\* getAvailableNeighborPositions: unoccupied neighbours inside the boundary
getAvailableNeighborPositions(m, bm, pos) ==
    SelectSeq(getAvailableNeighbors(m.grid, pos), LAMBDA p : isPointWithinBoundary(bm, p))

\* the commit of a batch with the visibility update ahead of the inserts
commitNewPositionsUpdateFirst(m, bm, newPositions) ==
    IF newPositions # <<>>
    THEN addAll(updateVisibilityForNewCells(m, newPositions), bm, newPositions)
    ELSE m

\* the commit part of trySpawningNewOctahedra, after the proposals are drawn
commitNewPositions(m, bm, newPositions) ==
    IF newPositions # <<>>
    THEN updateVisibilityForNewCells(addAll(m, bm, newPositions), newPositions)
    ELSE m

\* createInitialOctahedra that keeps the cells it finds
createInitialOctahedraKeep(m, bm, positions) ==
    updateVisibility(addAll(m, bm, positions))

\* createInitialOctahedra
createInitialOctahedra(m, bm, positions) ==
    LET m0 == IF size(m.transforms) > 0
              THEN [transforms |-> NewTransformData,
                    grid |-> NewOctahedronGrid(DefaultGridDim, DefaultGridDim, DefaultGridDim)]
              ELSE m
    IN  updateVisibility(addAll(m0, bm, positions))

(***************************************************************************)
(* Growth engine: the random part of trySpawningNewOctahedra.              *)
(***************************************************************************)
\* values of dis(localGen), in hundredths, that the model lets a cell draw
Draws == {0, 99}

\* the candidacy test with the chance scaled by deltaTime in place of the sum
shouldSpawnScaled(draw, deltaTime) == draw * 100 < SPAWN_CHANCE * deltaTime

\* the candidacy test with a spawn probability of zero
shouldSpawnNever(draw, deltaTime) == draw < 0

\* shouldSpawn[idx] = dis(localGen) < SPAWN_CHANCE + deltaTime
shouldSpawn(draw, deltaTime) == draw < SPAWN_CHANCE + deltaTime

RECURSIVE Orderings(_)
\* every order in which the parallel for_each can push its results
Orderings(S) ==
    IF S = {} THEN {<<>>}
    ELSE UNION { {<<x>> \o o : o \in Orderings(S \ {x})} : x \in S }

\* values of posDis(localGen) that the model lets a candidate draw from
\* 0 .. n - 1: the first MaxPick indices and the last one
pickIndices(n) == {i \in 1..n : i <= MaxPick \/ i = n}

\* the positions one candidate may propose: available[posDis(localGen)]
\* the entries of available that posDis(localGen) can select
pickedFrom(available) == {available[i] : i \in pickIndices(Len(available))}

proposalsOf(m, bm, idx) ==
    pickedFrom(getAvailableNeighborPositions(m, bm, getPositionForIndex(m.grid, idx)))

\* newPositions when every candidate pushes each position it can pick, not
\* one of them
pushedListsAll(proposals) ==
    Orderings(UNION {proposals[i] : i \in DOMAIN proposals})

\* every value newPositions can have when the candidates in DOMAIN proposals
\* push one of their proposals each, in any order
pushedLists(proposals) ==
    { [k \in 1..Len(o) |-> f[o[k]]]
      : o \in Orderings(DOMAIN proposals),
        f \in { f \in [DOMAIN proposals -> UNION {proposals[i] : i \in DOMAIN proposals}]
                : \A idx \in DOMAIN proposals : f[idx] \in proposals[idx] } }

\* the candidates that have an available neighbour, with their proposals
liveProposals(proposals) ==
    [idx \in {i \in DOMAIN proposals : proposals[i] # {}} |-> proposals[idx]]

\* every value newPositions can have after the parallel phase, for the set
\* spawnIndices of candidates
newPositionLists(m, bm, spawnIndices) ==
    pushedLists(liveProposals([idx \in spawnIndices |-> proposalsOf(m, bm, idx)]))

\* the candidate sets the draws can produce in a store of n cells
spawnIndexSets(n, deltaTime) ==
    { {idx \in 0..(n - 1) : shouldSpawn(d[idx], deltaTime)} : d \in [0..(n - 1) -> Draws] }

(***************************************************************************)
(* The queue between the threads: generateCellBatch appends to             *)
(* pendingNewPositions, applyPendingChanges takes the queue and adds the   *)
(* cells (TruncatedOctahedraManager.h).                                    *)
(***************************************************************************)
\* generateCellBatch: the values of spawnIndices, the indices drawn from
\* [0, totalSize) whose shouldSpawn bit came out true, at most len of them
batchIndices(totalSize, len) ==
    UNION { [1..k -> 0..(totalSize - 1)] : k \in 0..len }

\* generateCellBatch: the candidates of spawnIndices that find an available
\* neighbour
liveIndices(m, bm, spawnIndices) ==
    SelectSeq(spawnIndices, LAMBDA idx : proposalsOf(m, bm, idx) # {})

\* generateCellBatch: the values of newLocalPositions for one spawnIndices,
\* each live candidate pushing available[posDis(gen)]
localPositionLists(m, bm, live) ==
    { picks \in [1..Len(live) -> UNION {proposalsOf(m, bm, live[k]) : k \in 1..Len(live)}]
      : \A k \in 1..Len(live) : picks[k] \in proposalsOf(m, bm, live[k]) }

\* generateCellBatch: every newLocalPositions of at most len positions
cellBatches(m, bm, len) ==
    IF size(m.transforms) = 0 THEN {<<>>}
    ELSE UNION { localPositionLists(m, bm, liveIndices(m, bm, spawnIndices))
                 : spawnIndices \in batchIndices(size(m.transforms), len) }

(***************************************************************************)
(* State.                                                                  *)
(***************************************************************************)
VARIABLES
    transforms,           \* TransformData transforms
    grid,                 \* OctahedronGrid grid
    boundaryManager,      \* *boundaryManager
    startingPositions,    \* std::vector<Vector3> startingPositions
    gridInitialized,      \* bool gridInitialized
    generationActive,     \* std::atomic<bool> generationActive
    shouldStopThread,     \* std::atomic<bool> shouldStopThread
    pendingNewPositions,  \* std::vector<Vector3> pendingNewPositions
    genPc,                \* where generationThreadFunc stands
    ctlPc,                \* where the control (render) thread stands
    hist,                 \* the last operation, for stating properties
    probe,                \* argument and result of a pure query
    newPositionsToApply,  \* applyPendingChanges: std::vector<Vector3> newPositionsToApply
    applyIndex,           \* applyPendingChanges: the positions already passed to addOctahedron
    queueLog,             \* the positions appended, applied and discarded, for stating properties
    tickPc,               \* where a stepwise trySpawningNewOctahedra stands
    shouldSpawnVector,    \* trySpawningNewOctahedra: std::vector<bool> shouldSpawn
    newPositionsVector,   \* trySpawningNewOctahedra: std::vector<Vector3> newPositions
    positionsMutex,       \* trySpawningNewOctahedra: std::mutex positionsMutex, its holder
    todo,                 \* the indices of the running parallel algorithm not yet taken
    workers,              \* the threads of the parallel algorithms, each with its locals
    statistics            \* the placement and availability counters of the manager

\* the locals of applyPendingChanges, with the record of the queue
queueVars == << newPositionsToApply, applyIndex, queueLog >>

\* the locals of trySpawningNewOctahedra and of its parallel algorithms
tickVars == << tickPc, shouldSpawnVector, newPositionsVector, positionsMutex, todo, workers,
              statistics >>

vars == << transforms, grid, boundaryManager, startingPositions, gridInitialized,
           generationActive, shouldStopThread, pendingNewPositions, genPc, ctlPc,
           hist, probe, queueVars, tickVars >>

\* the manager's cell data in the current state
M == [transforms |-> transforms, grid |-> grid]

\* every cell's (neighborCount, visible) equals what a full rescan gives
VisibilityExact(m) == updateVisibility(m).transforms = m.transforms

NoProbe == [fn |-> "none"]

\* no position was appended to pendingNewPositions yet
EmptyQueueLog == [appended |-> <<>>, applied |-> <<>>, discarded |-> <<>>]

\* the threads a parallel algorithm of trySpawningNewOctahedra runs on
Workers == {1, 2}
NoWorker == 0
\* a thread that holds no element: its position, its element, the value the
\* lambda returned or the flag it computed, the storage word it read, its
\* pick, the counters it read and its neighborCount
IdleWorker ==
    [pc |-> "idle", idx |-> 0, bit |-> FALSE, word |-> <<>>, newPos |-> <<0, 0, 0>>,
     square |-> 0, hexagon |-> 0, neighborCount |-> 0]

\* size_t squareFacePlacements = 0; ... totalHexagonFacesAvailable = 0;
NewStatistics ==
    [squareFacePlacements |-> 0, hexagonFacePlacements |-> 0,
     totalSquareFacesAvailable |-> 0, totalHexagonFacesAvailable |-> 0]

\* the record of an operation op by a thread, taken in the state before it
Hist(op, actor, arg) ==
    [op |-> op, actor |-> actor, arg |-> arg, sizeBefore |-> size(transforms)]

(***************************************************************************)
(* Inputs of the model.                                                    *)
(***************************************************************************)
\* the grid dimensions startGenerationThread computes from a boundary
startGridLength(bm) ==
    (bm.boundary.width * GridMarginTenths) \div (10 * SQUARE_DISTANCE * QuarterLength)
        + GridSlack
startGridHeight(bm) ==
    (bm.boundary.depth * GridMarginTenths)
        \div (10 * (SQUARE_DISTANCE \div 2) * QuarterLength) + GridSlack
startGridWidth(bm) ==
    (bm.boundary.height * GridMarginTenths) \div (10 * SQUARE_DISTANCE * QuarterLength)
        + GridSlack

DefaultGrid == NewOctahedronGrid(DefaultGridDim, DefaultGridDim, DefaultGridDim)

\* a cell in the corner of the boundary, and one deep inside it
CornerSeed == coordinatesToPosition(2, 4, 2)
InnerSeed == coordinatesToPosition(4, 6, 4)
\* a cell in the last z-plane of the default grid
EdgeSeed == coordinatesToPosition(4, 6, DefaultGridDim - 1)
\* inside the boundary, outside both the default and the started grid
FarSeed == coordinatesToPosition(4, 6, 2 * DefaultGridDim)

\* the positions of the fourteen coordinates squareDirs and hexDirs give for
\* the cell at pos, whether the grid holds them or not
RECURSIVE positionsOf(_)
positionsOf(dirs) ==
    IF dirs = <<>> THEN <<>>
    ELSE <<coordinatesToPosition(Head(dirs)[1], Head(dirs)[2], Head(dirs)[3])>>
             \o positionsOf(Tail(dirs))

neighborCoordinates(pos) ==
    squareDirs(positionToCoordinates(snapToGridPosition(pos)))
        \o hexDirs(positionToCoordinates(snapToGridPosition(pos)))

\* a cell followed by the positions of all its neighbour coordinates
BlockAround(pos) == <<pos>> \o positionsOf(neighborCoordinates(pos))

\* the starting-position lists the model lets generateStartingPositions
\* produce, all of snapped positions inside the boundary: one cell, two
\* cells far apart, and two dense lists (a small spacing) that hold a cell
\* with every neighbour position, inside the grid and in its last z-plane
SeedPlans ==
    { <<CornerSeed>>,
      <<InnerSeed, FarSeed>>,
      BlockAround(InnerSeed),
      BlockAround(EdgeSeed) }

\* the positions the model passes to addOctahedron
AddPositions ==
    { CornerSeed,
      << CornerSeed[1] + 1, CornerSeed[2], CornerSeed[3] - 1 >>,
      FarSeed,
      <<0, 0, 0>> }

\* the deltaTime arguments of trySpawningNewOctahedra, in hundredths; the
\* generation thread passes 0.56f.  With 0.9 every draw of [0, 1) is below
\* SPAWN_CHANCE + deltaTime.
ThreadDeltaTime == 56
CertainDeltaTime == 100 - SPAWN_CHANCE
DeltaTimes == {0, CertainDeltaTime}

(***************************************************************************)
(* Initial state: the manager after its constructor.                       *)
(***************************************************************************)
InitWith(plans) ==
    /\ transforms = NewTransformData
    /\ grid = DefaultGrid
    /\ boundaryManager = NewBoundaryManager
    /\ startingPositions \in plans
    /\ gridInitialized = FALSE
    /\ generationActive = FALSE
    /\ shouldStopThread = FALSE
    /\ pendingNewPositions = <<>>
    /\ genPc = "none"
    /\ ctlPc = "idle"
    /\ hist = [op |-> "constructor", actor |-> "control", arg |-> <<>>, sizeBefore |-> 0]
    /\ probe = NoProbe
    /\ newPositionsToApply = <<>>
    /\ applyIndex = 0
    /\ queueLog = EmptyQueueLog
    /\ tickPc = "none"
    /\ shouldSpawnVector = <<>>
    /\ newPositionsVector = <<>>
    /\ positionsMutex = NoWorker
    /\ todo = {}
    /\ workers = [w \in Workers |-> IdleWorker]
    /\ statistics = NewStatistics

Init == InitWith(SeedPlans)

(***************************************************************************)
(* Operations of the control thread.  The operations that write the cell   *)
(* data are offered while no generation thread exists.                     *)
(***************************************************************************)
Sequential == ctlPc = "idle" /\ genPc = "none"

\* addOctahedron(pos)
AddOctahedron(pos) ==
    /\ Sequential
    /\ size(transforms) < MaxCells
    /\ LET m == addOctahedron(M, boundaryManager, pos)
       IN  transforms' = m.transforms /\ grid' = m.grid
    /\ hist' = Hist("addOctahedron", "control", pos)
    /\ UNCHANGED << boundaryManager, startingPositions, gridInitialized, generationActive,
                    shouldStopThread, pendingNewPositions, genPc, ctlPc, probe >>
    /\ UNCHANGED << queueVars, tickVars >>

\* updateVisibility()
UpdateVisibility ==
    /\ Sequential
    /\ transforms' = updateVisibility(M).transforms
    /\ hist' = Hist("updateVisibility", "control", <<>>)
    /\ UNCHANGED << grid, boundaryManager, startingPositions, gridInitialized,
                    generationActive, shouldStopThread, pendingNewPositions, genPc, ctlPc,
                    probe >>
    /\ UNCHANGED << queueVars, tickVars >>

\* trySpawningNewOctahedra(deltaTime), called directly
TrySpawningNewOctahedra(deltaTime) ==
    /\ Sequential
    /\ size(transforms) < MaxCells
    /\ \E spawnIndices \in spawnIndexSets(size(transforms), deltaTime) :
         \E newPositions \in newPositionLists(M, boundaryManager, spawnIndices) :
            LET m == commitNewPositions(M, boundaryManager, newPositions)
            IN  /\ transforms' = m.transforms
                /\ grid' = m.grid
                /\ hist' = Hist("trySpawningNewOctahedra", "control", <<deltaTime>>)
    /\ UNCHANGED << boundaryManager, startingPositions, gridInitialized, generationActive,
                    shouldStopThread, pendingNewPositions, genPc, ctlPc, probe >>
    /\ UNCHANGED << queueVars, tickVars >>

\* generateStartingPositions(): the list is recomputed from the boundary
GenerateStartingPositions(plans) ==
    /\ ctlPc = "idle"
    /\ \E plan \in plans :
         /\ \A i \in 1..Len(plan) : isPointWithinBoundary(boundaryManager, plan[i])
         /\ startingPositions' = plan
    /\ hist' = Hist("generateStartingPositions", "control", <<>>)
    /\ UNCHANGED << transforms, grid, boundaryManager, gridInitialized, generationActive,
                    shouldStopThread, pendingNewPositions, genPc, ctlPc, probe >>
    /\ UNCHANGED << queueVars, tickVars >>

\* resetOctahedra() = createInitialOctahedra()
ResetOctahedra ==
    /\ Sequential
    /\ LET m == createInitialOctahedra(M, boundaryManager, startingPositions)
       IN  transforms' = m.transforms /\ grid' = m.grid
    /\ hist' = Hist("resetOctahedra", "control", <<>>)
    /\ UNCHANGED << boundaryManager, startingPositions, gridInitialized, generationActive,
                    shouldStopThread, pendingNewPositions, genPc, ctlPc, probe >>
    /\ UNCHANGED << queueVars, tickVars >>

\* toggleBoundaryEnabled()
ToggleBoundaryEnabled ==
    /\ ctlPc = "idle"
    /\ boundaryManager' = toggleBoundaryEnabled(boundaryManager)
    /\ hist' = Hist("toggleBoundaryEnabled", "control", <<>>)
    /\ UNCHANGED << transforms, grid, startingPositions, gridInitialized, generationActive,
                    shouldStopThread, pendingNewPositions, genPc, ctlPc, probe >>
    /\ UNCHANGED << queueVars, tickVars >>

\* setBoundaryEnabled(enabled), on the manager getBoundaryManager() returns
SetBoundaryEnabled(enabled) ==
    /\ ctlPc = "idle"
    /\ boundaryManager' = setBoundaryEnabled(boundaryManager, enabled)
    /\ hist' = Hist("setBoundaryEnabled", "control", <<enabled>>)
    /\ UNCHANGED << transforms, grid, startingPositions, gridInitialized, generationActive,
                    shouldStopThread, pendingNewPositions, genPc, ctlPc, probe >>
    /\ UNCHANGED << queueVars, tickVars >>

\* the width and the depth stay within MaxResizeSteps steps of the defaults
WithinResizeSteps(bm) ==
    /\ bm.boundary.width >= DefaultBoundaryWidth - MaxResizeSteps * ResizeSpeed
    /\ bm.boundary.width <= DefaultBoundaryWidth + MaxResizeSteps * ResizeSpeed
    /\ bm.boundary.depth >= DefaultBoundaryDepth - MaxResizeSteps * ResizeSpeed
    /\ bm.boundary.depth <= DefaultBoundaryDepth + MaxResizeSteps * ResizeSpeed

\* the starting positions after handleBoundaryResizing: regenerated when a
\* dimension changed
positionsAfterResizing(old, new, plans) ==
    IF old.boundary.width # new.boundary.width
         \/ old.boundary.depth # new.boundary.depth
         \/ old.boundary.height # new.boundary.height
    THEN {plan \in plans : \A i \in 1..Len(plan) : isPointWithinBoundary(new, plan[i])}
    ELSE {startingPositions}

\* handleBoundaryResizing(), the arrow keys being right, left, up and down
HandleBoundaryResizing(keys, plans) ==
    /\ ctlPc = "idle"
    /\ \E bm \in {handleResizing(boundaryManager, keys[1], keys[2], keys[3], keys[4])} :
         /\ WithinResizeSteps(bm)
         /\ boundaryManager' = bm
         /\ startingPositions' \in positionsAfterResizing(boundaryManager, bm, plans)
    /\ hist' = Hist("handleBoundaryResizing", "control", keys)
    /\ UNCHANGED << transforms, grid, gridInitialized, generationActive,
                    shouldStopThread, pendingNewPositions, genPc, ctlPc, probe >>
    /\ UNCHANGED << queueVars, tickVars >>

\* getBoundaryManager()->setBoundaryWidth(width)
SetBoundaryWidth(width) ==
    /\ ctlPc = "idle"
    /\ boundaryManager' = setBoundaryWidth(boundaryManager, width)
    /\ hist' = Hist("setBoundaryWidth", "control", <<width>>)
    /\ UNCHANGED << transforms, grid, startingPositions, gridInitialized, generationActive,
                    shouldStopThread, pendingNewPositions, genPc, ctlPc, probe >>
    /\ UNCHANGED << queueVars, tickVars >>

\* getBoundaryManager()->setBoundaryDepth(depth)
SetBoundaryDepth(depth) ==
    /\ ctlPc = "idle"
    /\ boundaryManager' = setBoundaryDepth(boundaryManager, depth)
    /\ hist' = Hist("setBoundaryDepth", "control", <<depth>>)
    /\ UNCHANGED << transforms, grid, startingPositions, gridInitialized, generationActive,
                    shouldStopThread, pendingNewPositions, genPc, ctlPc, probe >>
    /\ UNCHANGED << queueVars, tickVars >>

\* getBoundaryManager()->setBoundaryHeight(height)
SetBoundaryHeight(height) ==
    /\ ctlPc = "idle"
    /\ boundaryManager' = setBoundaryHeight(boundaryManager, height)
    /\ hist' = Hist("setBoundaryHeight", "control", <<height>>)
    /\ UNCHANGED << transforms, grid, startingPositions, gridInitialized, generationActive,
                    shouldStopThread, pendingNewPositions, genPc, ctlPc, probe >>
    /\ UNCHANGED << queueVars, tickVars >>

\* getBoundaryManager()->lockBoundarySize()
LockBoundarySize ==
    /\ ctlPc = "idle"
    /\ boundaryManager' = lockBoundarySize(boundaryManager)
    /\ hist' = Hist("lockBoundarySize", "control", <<>>)
    /\ UNCHANGED << transforms, grid, startingPositions, gridInitialized, generationActive,
                    shouldStopThread, pendingNewPositions, genPc, ctlPc, probe >>
    /\ UNCHANGED << queueVars, tickVars >>

\* applyPendingChanges() with a full updateVisibility() in place of the
\* return on an empty queue
ApplyPendingChangesRescan ==
    /\ ctlPc = "idle"
    /\ IF pendingNewPositions = <<>>
       THEN /\ transforms' = updateVisibility(M).transforms
            /\ UNCHANGED << grid, pendingNewPositions >>
       ELSE LET toApply == pendingNewPositions
                m == updateVisibilityForNewCells(
                         addAll(M, boundaryManager, toApply), toApply)
            IN  /\ pendingNewPositions' = <<>>
                /\ transforms' = m.transforms
                /\ grid' = m.grid
    /\ hist' = Hist("applyPendingChanges", "control", <<>>)
    /\ queueLog' = [queueLog EXCEPT !.applied = @ \o pendingNewPositions]
    /\ UNCHANGED << boundaryManager, startingPositions, gridInitialized, generationActive,
                    shouldStopThread, genPc, ctlPc, probe >>
    /\ UNCHANGED << newPositionsToApply, applyIndex, tickVars >>

\* applyPendingChanges()
ApplyPendingChanges ==
    /\ ctlPc = "idle"
    /\ IF pendingNewPositions = <<>>
       THEN UNCHANGED << transforms, grid, pendingNewPositions >>
       ELSE LET toApply == pendingNewPositions
                m == updateVisibilityForNewCells(
                         addAll(M, boundaryManager, toApply), toApply)
            IN  /\ pendingNewPositions' = <<>>
                /\ transforms' = m.transforms
                /\ grid' = m.grid
    /\ hist' = Hist("applyPendingChanges", "control", <<>>)
    /\ queueLog' = [queueLog EXCEPT !.applied = @ \o pendingNewPositions]
    /\ UNCHANGED << boundaryManager, startingPositions, gridInitialized, generationActive,
                    shouldStopThread, genPc, ctlPc, probe >>
    /\ UNCHANGED << newPositionsToApply, applyIndex, tickVars >>

\* startGenerationThread() with the grid set up and the cells created on
\* every start, gridInitialized not consulted
StartGenerationThreadReseed ==
    /\ ctlPc = "idle"
    /\ IF generationActive
       THEN UNCHANGED << transforms, grid, boundaryManager, gridInitialized,
                         generationActive, shouldStopThread, genPc >>
       ELSE /\ IF TRUE
               THEN LET bm == lockBoundarySize(boundaryManager)
                        g == resizeGrid(grid, startGridLength(bm), startGridWidth(bm),
                                        startGridHeight(bm))
                        m == createInitialOctahedra([transforms |-> transforms, grid |-> g],
                                                    bm, startingPositions)
                    IN  /\ boundaryManager' = bm
                        /\ transforms' = m.transforms
                        /\ grid' = m.grid
                        /\ gridInitialized' = TRUE
               ELSE UNCHANGED << transforms, grid, boundaryManager, gridInitialized >>
            /\ shouldStopThread' = FALSE
            /\ generationActive' = TRUE
            /\ genPc' = "loop"
    /\ hist' = Hist("startGenerationThread", "control", <<gridInitialized>>)
    /\ UNCHANGED << startingPositions, pendingNewPositions, ctlPc, probe >>
    /\ UNCHANGED << queueVars, tickVars >>

\* startGenerationThread() without the return on generationActive
StartGenerationThreadAgain ==
    /\ ctlPc = "idle"
    /\ IF FALSE
       THEN UNCHANGED << transforms, grid, boundaryManager, gridInitialized,
                         generationActive, shouldStopThread, genPc >>
       ELSE /\ IF ~gridInitialized
               THEN LET bm == lockBoundarySize(boundaryManager)
                        g == resizeGrid(grid, startGridLength(bm), startGridWidth(bm),
                                        startGridHeight(bm))
                        m == createInitialOctahedra([transforms |-> transforms, grid |-> g],
                                                    bm, startingPositions)
                    IN  /\ boundaryManager' = bm
                        /\ transforms' = m.transforms
                        /\ grid' = m.grid
                        /\ gridInitialized' = TRUE
               ELSE UNCHANGED << transforms, grid, boundaryManager, gridInitialized >>
            /\ shouldStopThread' = FALSE
            /\ generationActive' = TRUE
            /\ genPc' = "loop"
    /\ hist' = Hist("startGenerationThread", "control", <<gridInitialized>>)
    /\ UNCHANGED << startingPositions, pendingNewPositions, ctlPc, probe >>
    /\ UNCHANGED << queueVars, tickVars >>

\* startGenerationThread()
StartGenerationThread ==
    /\ ctlPc = "idle"
    /\ IF generationActive
       THEN UNCHANGED << transforms, grid, boundaryManager, gridInitialized,
                         generationActive, shouldStopThread, genPc >>
       ELSE /\ IF ~gridInitialized
               THEN LET bm == lockBoundarySize(boundaryManager)
                        g == resizeGrid(grid, startGridLength(bm), startGridWidth(bm),
                                        startGridHeight(bm))
                        m == createInitialOctahedra([transforms |-> transforms, grid |-> g],
                                                    bm, startingPositions)
                    IN  /\ boundaryManager' = bm
                        /\ transforms' = m.transforms
                        /\ grid' = m.grid
                        /\ gridInitialized' = TRUE
               ELSE UNCHANGED << transforms, grid, boundaryManager, gridInitialized >>
            /\ shouldStopThread' = FALSE
            /\ generationActive' = TRUE
            /\ genPc' = "loop"
    /\ hist' = Hist("startGenerationThread", "control", <<gridInitialized>>)
    /\ UNCHANGED << startingPositions, pendingNewPositions, ctlPc, probe >>
    /\ UNCHANGED << queueVars, tickVars >>

\* stopGenerationThread(), up to the join
StopGenerationThread ==
    /\ ctlPc = "idle"
    /\ IF ~generationActive
       THEN UNCHANGED << generationActive, shouldStopThread, ctlPc >>
       ELSE /\ shouldStopThread' = TRUE
            /\ generationActive' = FALSE
            /\ ctlPc' = "joining"
    /\ hist' = Hist("stopGenerationThread", "control", <<>>)
    /\ UNCHANGED << transforms, grid, boundaryManager, startingPositions, gridInitialized,
                    pendingNewPositions, genPc, probe >>
    /\ UNCHANGED << queueVars, tickVars >>

\* stopGenerationThread() returning without the join: the thread is left
\* where it is
StopNotJoined ==
    /\ ctlPc = "joining"
    /\ ctlPc' = "idle"
    /\ pendingNewPositions' = <<>>
    /\ hist' = Hist("stopGenerationThread.join", "control", <<>>)
    /\ UNCHANGED << transforms, grid, boundaryManager, startingPositions, gridInitialized,
                    generationActive, shouldStopThread, genPc, probe >>
    /\ queueLog' = [queueLog EXCEPT !.discarded = @ \o pendingNewPositions]
    /\ UNCHANGED << newPositionsToApply, applyIndex, tickVars >>

\* stopGenerationThread(): generationThread.join() returns, the queue is cleared
StopJoined ==
    /\ ctlPc = "joining"
    /\ genPc = "exited"
    /\ genPc' = "none"
    /\ ctlPc' = "idle"
    /\ pendingNewPositions' = <<>>
    /\ hist' = Hist("stopGenerationThread.join", "control", <<>>)
    /\ UNCHANGED << transforms, grid, boundaryManager, startingPositions, gridInitialized,
                    generationActive, shouldStopThread, probe >>
    /\ queueLog' = [queueLog EXCEPT !.discarded = @ \o pendingNewPositions]
    /\ UNCHANGED << newPositionsToApply, applyIndex, tickVars >>

(***************************************************************************)
(* The generation thread: generationThreadFunc.                            *)
(***************************************************************************)
\* while (!shouldStopThread) { trySpawningNewOctahedra(0.56f); ...
GenerationTick ==
    /\ genPc = "loop"
    /\ ~shouldStopThread
    /\ size(transforms) < MaxCells
    /\ \E spawnIndices \in spawnIndexSets(size(transforms), ThreadDeltaTime) :
         \E newPositions \in newPositionLists(M, boundaryManager, spawnIndices) :
            LET m == commitNewPositions(M, boundaryManager, newPositions)
            IN  /\ transforms' = m.transforms
                /\ grid' = m.grid
                /\ hist' = Hist("trySpawningNewOctahedra", "generation", <<ThreadDeltaTime>>)
    /\ genPc' = "ticked"
    /\ UNCHANGED << boundaryManager, startingPositions, gridInitialized, generationActive,
                    shouldStopThread, pendingNewPositions, ctlPc, probe >>
    /\ UNCHANGED << queueVars, tickVars >>

\* ... if (shouldStopThread) break; std::this_thread::yield(); }
GenerationYield ==
    /\ genPc = "ticked"
    /\ genPc' = IF shouldStopThread THEN "exited" ELSE "loop"
    /\ hist' = Hist("yield", "generation", <<>>)
    /\ UNCHANGED << transforms, grid, boundaryManager, startingPositions, gridInitialized,
                    generationActive, shouldStopThread, pendingNewPositions, ctlPc, probe >>
    /\ UNCHANGED << queueVars, tickVars >>

\* the loop condition fails: the thread function returns
GenerationExit ==
    /\ genPc = "loop"
    /\ shouldStopThread
    /\ genPc' = "exited"
    /\ hist' = Hist("exit", "generation", <<>>)
    /\ UNCHANGED << transforms, grid, boundaryManager, startingPositions, gridInitialized,
                    generationActive, shouldStopThread, pendingNewPositions, ctlPc, probe >>
    /\ UNCHANGED << queueVars, tickVars >>

Next ==
    \/ \E pos \in AddPositions : AddOctahedron(pos)
    \/ UpdateVisibility
    \/ \E deltaTime \in DeltaTimes : TrySpawningNewOctahedra(deltaTime)
    \/ GenerateStartingPositions(SeedPlans)
    \/ ResetOctahedra
    \/ ToggleBoundaryEnabled
    \/ ApplyPendingChanges
    \/ StartGenerationThread
    \/ StopGenerationThread
    \/ StopJoined
    \/ GenerationTick
    \/ GenerationYield
    \/ GenerationExit

Spec == Init /\ [][Next]_vars

(***************************************************************************)
(* The manager with its boundary left as constructed: every operation but  *)
(* toggleBoundaryEnabled.                                                  *)
(***************************************************************************)
NextBoundaryFixed ==
    \/ \E pos \in AddPositions : AddOctahedron(pos)
    \/ UpdateVisibility
    \/ \E deltaTime \in DeltaTimes : TrySpawningNewOctahedra(deltaTime)
    \/ GenerateStartingPositions(SeedPlans)
    \/ ResetOctahedra
    \/ ApplyPendingChanges
    \/ StartGenerationThread
    \/ StopGenerationThread
    \/ StopJoined
    \/ GenerationTick
    \/ GenerationYield
    \/ GenerationExit

SpecBoundaryFixed == Init /\ [][NextBoundaryFixed]_vars

(***************************************************************************)
(* The manager with the operations on its boundary: the boundary is resized *)
(* and set, the generation is started, stopped and reset.                   *)
(***************************************************************************)
\* the arrow keys (right, left, up, down) handleResizing reads
KeyStates ==
    { <<TRUE, FALSE, FALSE, FALSE>>, <<FALSE, TRUE, FALSE, FALSE>>,
      <<FALSE, FALSE, TRUE, FALSE>>, <<FALSE, FALSE, FALSE, TRUE>>,
      <<FALSE, FALSE, FALSE, FALSE>> }

\* the arguments of setBoundaryWidth and setBoundaryDepth, and of
\* setBoundaryHeight: lengths no default has
BoundaryLengths == {DefaultBoundaryWidth + ResizeSpeed}
BoundaryHeights == {DefaultBoundaryHeight + ResizeSpeed}

BoundarySeedPlans == {<<CornerSeed>>}

InitBoundary == InitWith(BoundarySeedPlans)

NextBoundary ==
    \/ \E keys \in KeyStates : HandleBoundaryResizing(keys, BoundarySeedPlans)
    \/ \E width \in BoundaryLengths : SetBoundaryWidth(width)
    \/ \E depth \in BoundaryLengths : SetBoundaryDepth(depth)
    \/ \E height \in BoundaryHeights : SetBoundaryHeight(height)
    \/ LockBoundarySize
    \/ \E enabled \in BOOLEAN : SetBoundaryEnabled(enabled)
    \/ ToggleBoundaryEnabled
    \/ ResetOctahedra
    \/ StartGenerationThread
    \/ StopGenerationThread
    \/ StopJoined
    \/ GenerationTick
    \/ GenerationYield
    \/ GenerationExit

SpecBoundary == InitBoundary /\ [][NextBoundary]_vars

(***************************************************************************)
(* The lattice index on its own: OctahedronGrid's insert and its neighbour *)
(* query, called with arguments of the model's choice.                     *)
(***************************************************************************)
\* the positions passed to insert: a cell, a position off the raster whose
\* snapped position falls into the same slot, and one outside the grid
InsertPositions ==
    { InnerSeed,
      << InnerSeed[1] - 3, InnerSeed[2], InnerSeed[3] - 1 >>,
      FarSeed }

\* the lattice coordinates whose positions are passed to getNeighborPositions:
\* both layer parities, in the interior and on two faces of the grid
ProbeCoordinates ==
    { <<x, y, z>> : x \in {0, 4}, y \in {5, 6}, z \in {4, DefaultGridDim - 1} }

ProbePositions ==
    { coordinatesToPosition(c[1], c[2], c[3]) : c \in ProbeCoordinates }
        \cup { << InnerSeed[1] + 1, InnerSeed[2], InnerSeed[3] - 1 >> }

\* grid.insert(worldPos, cellIndex)
GridInsert(worldPos, cellIndex) ==
    /\ grid' = insert(grid, worldPos, cellIndex)
    /\ hist' = Hist("insert", "control", <<worldPos, cellIndex>>)
    /\ UNCHANGED << transforms, boundaryManager, startingPositions, gridInitialized,
                    generationActive, shouldStopThread, pendingNewPositions, genPc, ctlPc,
                    probe >>
    /\ UNCHANGED << queueVars, tickVars >>

\* grid.getNeighborPositions(pos, filterOccupied)
QueryNeighborPositions(pos, filterOccupied) ==
    /\ probe' = [fn |-> "getNeighborPositions", pos |-> pos,
                 filterOccupied |-> filterOccupied,
                 result |-> getNeighborPositions(grid, pos, filterOccupied)]
    /\ UNCHANGED << transforms, grid, boundaryManager, startingPositions, gridInitialized,
                    generationActive, shouldStopThread, pendingNewPositions, genPc, ctlPc,
                    hist >>
    /\ UNCHANGED << queueVars, tickVars >>

\* grid.getPositionForIndex(cellIndex)
QueryPositionForIndex(cellIndex) ==
    /\ probe' = [fn |-> "getPositionForIndex", cellIndex |-> cellIndex,
                 result |-> getPositionForIndex(grid, cellIndex)]
    /\ probe' # probe
    /\ UNCHANGED << transforms, grid, boundaryManager, startingPositions, gridInitialized,
                    generationActive, shouldStopThread, pendingNewPositions, genPc, ctlPc,
                    hist >>
    /\ UNCHANGED << queueVars, tickVars >>

InitGrid == InitWith({<<>>})

NextGrid ==
    \/ \E worldPos \in InsertPositions : \E cellIndex \in 0..(MaxGridIds - 1) :
          GridInsert(worldPos, cellIndex)
    \/ \E pos \in ProbePositions : \E filterOccupied \in BOOLEAN :
          QueryNeighborPositions(pos, filterOccupied)
    \/ \E cellIndex \in 0..MaxGridIds : QueryPositionForIndex(cellIndex)

SpecGrid == InitGrid /\ [][NextGrid]_vars

(***************************************************************************)
(* The coordinate mapper and the dense index: a grid is sized and lattice  *)
(* coordinates are mapped to positions, back to coordinates and to slots.  *)
(***************************************************************************)
\* the lattice coordinates mapped: both layer parities, negative values
MapperCoordinates ==
    { <<x, y, z>> : x \in (-MaxCoordinate)..MaxCoordinate,
                    y \in (-MaxCoordinate)..MaxCoordinate,
                    z \in (-MaxCoordinate)..MaxCoordinate }

\* the (length, width, height) arguments of resizeGrid
GridDimensions == { <<2, 3, 2>>, <<3, 2, 4>>, <<4, 4, 3>> }

\* grid.resizeGrid(length, width, height)
ResizeGrid(dims) ==
    /\ grid' = resizeGrid(grid, dims[1], dims[2], dims[3])
    /\ hist' = Hist("resizeGrid", "control", dims)
    /\ probe' = NoProbe
    /\ UNCHANGED << transforms, boundaryManager, startingPositions, gridInitialized,
                    generationActive, shouldStopThread, pendingNewPositions, genPc, ctlPc >>
    /\ UNCHANGED << queueVars, tickVars >>

\* coordinatesToPosition(x, y, z), then positionToCoordinates and
\* positionToIndex of the position it gave
mapped(g, c, pos) ==
    [fn |-> "coordinatesToPosition", c |-> c, position |-> pos,
     coordinates |-> positionToCoordinates(pos), index |-> positionToIndex(g, pos)]

MapCoordinate(c) ==
    /\ probe' = mapped(grid, c, coordinatesToPosition(c[1], c[2], c[3]))
    /\ probe' # probe
    /\ UNCHANGED << transforms, grid, boundaryManager, startingPositions, gridInitialized,
                    generationActive, shouldStopThread, pendingNewPositions, genPc, ctlPc,
                    hist >>
    /\ UNCHANGED << queueVars, tickVars >>

InitMapper == InitWith({<<>>})

NextMapper ==
    \/ \E dims \in GridDimensions : ResizeGrid(dims)
    \/ \E c \in MapperCoordinates : MapCoordinate(c)

SpecMapper == InitMapper /\ [][NextMapper]_vars

(***************************************************************************)
(* The manager with the queue in use: the generation thread runs           *)
(* generateCellBatch, the control thread applyPendingChanges, one locked   *)
(* section or one addOctahedron call at a time.                            *)
(***************************************************************************)
\* the positions generateCellBatch may still append
AppendRoom == Min(MaxBatch, MaxAppended - Len(queueLog.appended))

\* while (!shouldStopThread) { generateCellBatch(); ...
GenerateCellBatch ==
    /\ genPc = "loop"
    /\ ~shouldStopThread
    /\ \E newLocalPositions \in cellBatches(M, boundaryManager, AppendRoom) :
         /\ pendingNewPositions' = pendingNewPositions \o newLocalPositions
         /\ queueLog' = [queueLog EXCEPT !.appended = @ \o newLocalPositions]
         /\ hist' = Hist("generateCellBatch", "generation", newLocalPositions)
    /\ genPc' = "ticked"
    /\ UNCHANGED << transforms, grid, boundaryManager, startingPositions, gridInitialized,
                    generationActive, shouldStopThread, ctlPc, probe,
                    newPositionsToApply, applyIndex, tickVars >>

\* applyPendingChanges() that copies the queue and leaves it filled
ApplySwapCopy ==
    /\ ctlPc = "idle"
    /\ IF pendingNewPositions = <<>>
       THEN UNCHANGED << newPositionsToApply, pendingNewPositions, ctlPc >>
       ELSE /\ newPositionsToApply' = pendingNewPositions
            /\ UNCHANGED pendingNewPositions
            /\ ctlPc' = "applying"
    /\ applyIndex' = 0
    /\ hist' = Hist("applyPendingChanges.swap", "control", pendingNewPositions)
    /\ UNCHANGED << transforms, grid, boundaryManager, startingPositions, gridInitialized,
                    generationActive, shouldStopThread, genPc, probe, queueLog, tickVars >>

\* applyPendingChanges(): the section under pendingChangesMutex
ApplySwap ==
    /\ ctlPc = "idle"
    /\ IF pendingNewPositions = <<>>
       THEN UNCHANGED << newPositionsToApply, pendingNewPositions, ctlPc >>
       ELSE /\ newPositionsToApply' = pendingNewPositions
            /\ pendingNewPositions' = <<>>
            /\ ctlPc' = "applying"
    /\ applyIndex' = 0
    /\ hist' = Hist("applyPendingChanges.swap", "control", pendingNewPositions)
    /\ UNCHANGED << transforms, grid, boundaryManager, startingPositions, gridInitialized,
                    generationActive, shouldStopThread, genPc, probe, queueLog, tickVars >>

\* applyPendingChanges(): addOctahedron(newPositionsToApply[i])
ApplyAdd ==
    /\ ctlPc = "applying"
    /\ applyIndex < Len(newPositionsToApply)
    /\ LET m == addOctahedron(M, boundaryManager, newPositionsToApply[applyIndex + 1])
       IN  transforms' = m.transforms /\ grid' = m.grid
    /\ applyIndex' = applyIndex + 1
    /\ queueLog' = [queueLog EXCEPT !.applied = Append(@, newPositionsToApply[applyIndex + 1])]
    /\ hist' = Hist("applyPendingChanges.add", "control", newPositionsToApply[applyIndex + 1])
    /\ UNCHANGED << boundaryManager, startingPositions, gridInitialized, generationActive,
                    shouldStopThread, pendingNewPositions, genPc, ctlPc, probe,
                    newPositionsToApply, tickVars >>

\* applyPendingChanges(): updateVisibilityForNewCells(newPositionsToApply)
ApplyUpdate ==
    /\ ctlPc = "applying"
    /\ applyIndex = Len(newPositionsToApply)
    /\ transforms' = updateVisibilityForNewCells(M, newPositionsToApply).transforms
    /\ newPositionsToApply' = <<>>
    /\ applyIndex' = 0
    /\ ctlPc' = "idle"
    /\ hist' = Hist("applyPendingChanges.update", "control", newPositionsToApply)
    /\ UNCHANGED << grid, boundaryManager, startingPositions, gridInitialized,
                    generationActive, shouldStopThread, pendingNewPositions, genPc, probe,
                    queueLog, tickVars >>

QueueSeedPlans == {<<InnerSeed>>}

InitQueue == InitWith(QueueSeedPlans)

NextQueue ==
    \/ StartGenerationThread
    \/ StopGenerationThread
    \/ StopJoined
    \/ GenerateCellBatch
    \/ GenerationYield
    \/ GenerationExit
    \/ ApplySwap
    \/ ApplyAdd
    \/ ApplyUpdate
    \/ \E deltaTime \in DeltaTimes : TrySpawningNewOctahedra(deltaTime)

SpecQueue == InitQueue /\ [][NextQueue]_vars

(***************************************************************************)
(* trySpawningNewOctahedra with its two parallel algorithms taken one      *)
(* access at a time (part_002:673-723), run by the generation thread, with *)
(* the statistics counters of TruncatedOctahedraManager.h:217-220, 424-445.*)
(***************************************************************************)
\* isSquareFace: newPos differs from currentPos along one axis only
isSquareFace(newPos, currentPos) ==
    \/ newPos[1] # currentPos[1] /\ newPos[2] = currentPos[2] /\ newPos[3] = currentPos[3]
    \/ newPos[1] = currentPos[1] /\ newPos[2] # currentPos[2] /\ newPos[3] = currentPos[3]
    \/ newPos[1] = currentPos[1] /\ newPos[2] = currentPos[2] /\ newPos[3] # currentPos[3]

\* the squareFaces and hexagonFaces of the available neighbours of pos
squareFaces(g, pos) ==
    Len(SelectSeq(getAvailableNeighbors(g, pos), LAMBDA p : isSquareFace(p, pos)))
hexagonFaces(g, pos) ==
    Len(SelectSeq(getAvailableNeighbors(g, pos), LAMBDA p : ~isSquareFace(p, pos)))

AllIdle == \A w \in Workers : workers[w].pc = "idle"

\* a loop that tests no stop flag before it calls trySpawningNewOctahedra
TickBeginUnchecked ==
    /\ genPc = "loop"
    /\ size(transforms) <= MaxCells
    /\ genPc' = "spawning"
    /\ tickPc' = "draw"
    /\ shouldSpawnVector' = [i \in 1..size(transforms) |-> FALSE]
    /\ newPositionsVector' = <<>>
    /\ todo' = 0..(size(transforms) - 1)
    /\ hist' = Hist("trySpawningNewOctahedra.begin", "generation", <<ThreadDeltaTime>>)
    /\ UNCHANGED << transforms, grid, boundaryManager, startingPositions, gridInitialized,
                    generationActive, shouldStopThread, pendingNewPositions, ctlPc, probe,
                    queueVars, positionsMutex, workers, statistics >>

\* while (!shouldStopThread) { trySpawningNewOctahedra(0.56f): shouldSpawn(totalSize), indices
TickBegin ==
    /\ genPc = "loop"
    /\ ~shouldStopThread
    /\ size(transforms) <= MaxCells
    /\ genPc' = "spawning"
    /\ tickPc' = "draw"
    /\ shouldSpawnVector' = [i \in 1..size(transforms) |-> FALSE]
    /\ newPositionsVector' = <<>>
    /\ todo' = 0..(size(transforms) - 1)
    /\ hist' = Hist("trySpawningNewOctahedra.begin", "generation", <<ThreadDeltaTime>>)
    /\ UNCHANGED << transforms, grid, boundaryManager, startingPositions, gridInitialized,
                    generationActive, shouldStopThread, pendingNewPositions, ctlPc, probe,
                    queueVars, positionsMutex, workers, statistics >>

\* std::transform(par_unseq): a thread takes an element, evaluates the lambda
\* and starts the assignment to shouldSpawn[idx] by reading the word that
\* holds the bit
DrawBit(w, draw) ==
    /\ tickPc = "draw"
    /\ workers[w].pc = "idle"
    /\ \E idx \in todo :
         /\ todo' = todo \ {idx}
         /\ workers' = [workers EXCEPT ![w] =
                           [IdleWorker EXCEPT !.pc = "loaded", !.idx = idx,
                                              !.bit = shouldSpawn(draw, ThreadDeltaTime),
                                              !.word = shouldSpawnVector]]
         /\ hist' = Hist("transform.load", "worker", <<w, idx>>)
    /\ UNCHANGED << transforms, grid, boundaryManager, startingPositions, gridInitialized,
                    generationActive, shouldStopThread, pendingNewPositions, genPc, ctlPc,
                    probe, queueVars, tickPc, shouldSpawnVector, newPositionsVector,
                    positionsMutex, statistics >>

\* the assignment to shouldSpawn[idx] ends by writing the word back with the
\* bit changed
StoreBit(w) ==
    /\ tickPc = "draw"
    /\ workers[w].pc = "loaded"
    /\ shouldSpawnVector' = [workers[w].word EXCEPT ![workers[w].idx + 1] = workers[w].bit]
    /\ workers' = [workers EXCEPT ![w] = IdleWorker]
    /\ hist' = Hist("transform.store", "worker", <<w, workers[w].idx>>)
    /\ UNCHANGED << transforms, grid, boundaryManager, startingPositions, gridInitialized,
                    generationActive, shouldStopThread, pendingNewPositions, genPc, ctlPc,
                    probe, queueVars, tickPc, newPositionsVector, positionsMutex, todo,
                    statistics >>

\* std::transform returns; spawnIndices is collected from shouldSpawn
DrawDone ==
    /\ tickPc = "draw"
    /\ todo = {}
    /\ AllIdle
    /\ tickPc' = "select"
    /\ todo' = { i \in 0..(size(transforms) - 1) : shouldSpawnVector[i + 1] }
    /\ hist' = Hist("spawnIndices", "generation", <<>>)
    /\ UNCHANGED << transforms, grid, boundaryManager, startingPositions, gridInitialized,
                    generationActive, shouldStopThread, pendingNewPositions, genPc, ctlPc,
                    probe, queueVars, shouldSpawnVector, newPositionsVector, positionsMutex,
                    workers, statistics >>

\* std::for_each(par_unseq): a thread takes an element and, inside
\* getAvailableNeighborPositions, reads the two availability counters
CounterLoad(w) ==
    /\ tickPc = "select"
    /\ workers[w].pc = "idle"
    /\ \E idx \in todo :
         /\ todo' = todo \ {idx}
         /\ workers' = [workers EXCEPT ![w] =
                           [IdleWorker EXCEPT !.pc = "counting", !.idx = idx,
                                              !.square = statistics.totalSquareFacesAvailable,
                                              !.hexagon = statistics.totalHexagonFacesAvailable]]
         /\ hist' = Hist("totalFacesAvailable.load", "worker", <<w, idx>>)
    /\ UNCHANGED << transforms, grid, boundaryManager, startingPositions, gridInitialized,
                    generationActive, shouldStopThread, pendingNewPositions, genPc, ctlPc,
                    probe, queueVars, tickPc, shouldSpawnVector, newPositionsVector,
                    positionsMutex, statistics >>

\* totalSquareFacesAvailable += squareFaces; totalHexagonFacesAvailable +=
\* hexagonFaces: the sums are written back, and newPos is picked
CounterStore(w) ==
    /\ tickPc = "select"
    /\ workers[w].pc = "counting"
    /\ LET currentPos == getPositionForIndex(grid, workers[w].idx)
       IN  statistics' =
              [statistics EXCEPT
                  !.totalSquareFacesAvailable = workers[w].square + squareFaces(grid, currentPos),
                  !.totalHexagonFacesAvailable = workers[w].hexagon + hexagonFaces(grid, currentPos)]
    /\ IF proposalsOf(M, boundaryManager, workers[w].idx) = {}
       THEN workers' = [workers EXCEPT ![w] = IdleWorker]
       ELSE \E newPos \in proposalsOf(M, boundaryManager, workers[w].idx) :
               workers' = [workers EXCEPT ![w].pc = "picked", ![w].newPos = newPos]
    /\ hist' = Hist("totalFacesAvailable.store", "worker", <<w, workers[w].idx>>)
    /\ UNCHANGED << transforms, grid, boundaryManager, startingPositions, gridInitialized,
                    generationActive, shouldStopThread, pendingNewPositions, genPc, ctlPc,
                    probe, queueVars, tickPc, shouldSpawnVector, newPositionsVector,
                    positionsMutex, todo >>

\* std::lock_guard lock(positionsMutex), in the branch on isSquareFace and
\* again before the push_back
LockPositions(w) ==
    /\ tickPc = "select"
    /\ workers[w].pc \in {"picked", "placed"}
    /\ positionsMutex = NoWorker
    /\ positionsMutex' = w
    /\ workers' = [workers EXCEPT ![w].pc = IF @ = "picked" THEN "placing" ELSE "pushing"]
    /\ hist' = Hist("positionsMutex.lock", "worker", <<w, workers[w].idx>>)
    /\ UNCHANGED << transforms, grid, boundaryManager, startingPositions, gridInitialized,
                    generationActive, shouldStopThread, pendingNewPositions, genPc, ctlPc,
                    probe, queueVars, tickPc, shouldSpawnVector, newPositionsVector, todo,
                    statistics >>

\* squareFacePlacements++ or hexagonFacePlacements++, and the end of the block
CountPlacement(w) ==
    /\ tickPc = "select"
    /\ workers[w].pc = "placing"
    /\ statistics' =
          IF isSquareFace(workers[w].newPos, getPositionForIndex(grid, workers[w].idx))
          THEN [statistics EXCEPT !.squareFacePlacements = @ + 1]
          ELSE [statistics EXCEPT !.hexagonFacePlacements = @ + 1]
    /\ positionsMutex' = NoWorker
    /\ workers' = [workers EXCEPT ![w].pc = "placed"]
    /\ hist' = Hist("placements", "worker", <<w, workers[w].idx>>)
    /\ UNCHANGED << transforms, grid, boundaryManager, startingPositions, gridInitialized,
                    generationActive, shouldStopThread, pendingNewPositions, genPc, ctlPc,
                    probe, queueVars, tickPc, shouldSpawnVector, newPositionsVector, todo >>

\* newPositions.push_back(newPos), and the end of the lambda
PushBack(w) ==
    /\ tickPc = "select"
    /\ workers[w].pc = "pushing"
    /\ newPositionsVector' = Append(newPositionsVector, workers[w].newPos)
    /\ positionsMutex' = NoWorker
    /\ workers' = [workers EXCEPT ![w] = IdleWorker]
    /\ hist' = Hist("newPositions.push_back", "worker", <<w, workers[w].idx>>)
    /\ UNCHANGED << transforms, grid, boundaryManager, startingPositions, gridInitialized,
                    generationActive, shouldStopThread, pendingNewPositions, genPc, ctlPc,
                    probe, queueVars, tickPc, shouldSpawnVector, todo, statistics >>

\* std::for_each returns; addOctahedron for each of newPositions, then
\* updateVisibilityForNewCells(newPositions)
TickCommit ==
    /\ tickPc = "select"
    /\ todo = {}
    /\ AllIdle
    /\ LET m == commitNewPositions(M, boundaryManager, newPositionsVector)
       IN  transforms' = m.transforms /\ grid' = m.grid
    /\ tickPc' = "none"
    /\ genPc' = "ticked"
    /\ shouldSpawnVector' = <<>>
    /\ newPositionsVector' = <<>>
    /\ hist' = Hist("trySpawningNewOctahedra", "generation", newPositionsVector)
    /\ UNCHANGED << boundaryManager, startingPositions, gridInitialized, generationActive,
                    shouldStopThread, pendingNewPositions, ctlPc, probe, queueVars,
                    positionsMutex, todo, workers, statistics >>

WorkerSeedPlans == { <<CornerSeed, InnerSeed>> }

InitWorkers == InitWith(WorkerSeedPlans)

NextWorkers ==
    \/ StartGenerationThread
    \/ StopGenerationThread
    \/ StopJoined
    \/ GenerationYield
    \/ GenerationExit
    \/ TickBegin
    \/ \E w \in Workers : \E draw \in Draws : DrawBit(w, draw)
    \/ \E w \in Workers : StoreBit(w)
    \/ DrawDone
    \/ \E w \in Workers : CounterLoad(w)
    \/ \E w \in Workers : CounterStore(w)
    \/ \E w \in Workers : LockPositions(w)
    \/ \E w \in Workers : CountPlacement(w)
    \/ \E w \in Workers : PushBack(w)
    \/ TickCommit

SpecWorkers == InitWorkers /\ [][NextWorkers]_vars

\* the steps of the generation thread and of the threads of its algorithms,
\* but for CounterStore and TickCommit
GenerationSteps ==
    \/ GenerationYield
    \/ GenerationExit
    \/ TickBegin
    \/ \E w \in Workers : \E draw \in Draws : DrawBit(w, draw)
    \/ \E w \in Workers : StoreBit(w)
    \/ DrawDone
    \/ \E w \in Workers : CounterLoad(w)
    \/ \E w \in Workers : LockPositions(w)
    \/ \E w \in Workers : CountPlacement(w)
    \/ \E w \in Workers : PushBack(w)

\* the threads are scheduled: the generation thread and the threads of its
\* algorithms keep running while they have a step to take, and join()
\* returns once the thread function has.  For CounterStore and TickCommit
\* weak fairness is written out, with the guard of the action for ENABLED.
SpecWorkersFair ==
    /\ InitWorkers /\ [][NextWorkers]_vars
    /\ WF_vars(GenerationSteps)
    /\ WF_vars(StopJoined)
    /\ \/ []<>(~(tickPc = "select" /\ todo = {} /\ AllIdle))
       \/ []<><<TickCommit>>_vars
    /\ \A w \in Workers :
          \/ []<>(~(tickPc = "select" /\ workers[w].pc = "counting"))
          \/ []<><<CounterStore(w)>>_vars

(***************************************************************************)
(* createInitialOctahedra with the parallel loop of updateVisibility taken *)
(* one updateCellVisibility call at a time (part_002:417-429, 496-517).    *)
(***************************************************************************)
\* resetOctahedra(): the store is replaced, the starting positions are added,
\* and updateVisibility() hands its indices to the threads of std::for_each
ResetBegin ==
    /\ Sequential
    /\ tickPc = "none"
    /\ LET m0 == IF size(transforms) > 0
                 THEN [transforms |-> NewTransformData,
                       grid |-> NewOctahedronGrid(DefaultGridDim, DefaultGridDim,
                                                  DefaultGridDim)]
                 ELSE M
           m == addAll(m0, boundaryManager, startingPositions)
       IN  /\ transforms' = m.transforms
           /\ grid' = m.grid
           /\ todo' = 0..(size(m.transforms) - 1)
    /\ ctlPc' = "updating"
    /\ tickPc' = "visibility"
    /\ hist' = Hist("resetOctahedra", "control", <<>>)
    /\ UNCHANGED << boundaryManager, startingPositions, gridInitialized, generationActive,
                    shouldStopThread, pendingNewPositions, genPc, probe, queueVars,
                    shouldSpawnVector, newPositionsVector, positionsMutex, workers,
                    statistics >>

\* the element the algorithm hands out next: the indices go out in order
NextIndex == CHOOSE idx \in todo : \A other \in todo : idx <= other

\* updateCellVisibility(idx): neighborCount and isVisible are computed, and
\* setVisibility starts the assignment to is_visible[idx] by reading the word
\* that holds the bit
VisibilityLoad(w) ==
    /\ tickPc = "visibility"
    /\ workers[w].pc = "idle"
    /\ todo # {}
    /\ todo' = todo \ {NextIndex}
    /\ LET neighborCount ==
              Len(getOccupiedNeighbors(grid, getPositionForIndex(grid, NextIndex)))
       IN  workers' = [workers EXCEPT ![w] =
                          [IdleWorker EXCEPT !.pc = "loaded", !.idx = NextIndex,
                                             !.neighborCount = neighborCount,
                                             !.bit = (neighborCount < FullNeighborCount),
                                             !.word = transforms.is_visible]]
    /\ hist' = Hist("setVisibility.load", "worker", <<w, NextIndex>>)
    /\ UNCHANGED << transforms, grid, boundaryManager, startingPositions, gridInitialized,
                    generationActive, shouldStopThread, pendingNewPositions, genPc, ctlPc,
                    probe, queueVars, tickPc, shouldSpawnVector, newPositionsVector,
                    positionsMutex, statistics >>

\* the assignment to is_visible[idx] ends by writing the word back with the
\* bit changed; setNeighborCount(idx, neighborCount) follows
VisibilityStore(w) ==
    /\ tickPc = "visibility"
    /\ workers[w].pc = "loaded"
    /\ transforms' =
          setNeighborCount(
              [transforms EXCEPT
                  !.is_visible = [workers[w].word EXCEPT ![workers[w].idx + 1] = workers[w].bit]],
              workers[w].idx, workers[w].neighborCount)
    /\ workers' = [workers EXCEPT ![w] = IdleWorker]
    /\ hist' = Hist("setVisibility.store", "worker", <<w, workers[w].idx>>)
    /\ UNCHANGED << grid, boundaryManager, startingPositions, gridInitialized,
                    generationActive, shouldStopThread, pendingNewPositions, genPc, ctlPc,
                    probe, queueVars, tickPc, shouldSpawnVector, newPositionsVector,
                    positionsMutex, todo, statistics >>

\* std::for_each returns, and updateVisibility and resetOctahedra with it
UpdateDone ==
    /\ tickPc = "visibility"
    /\ todo = {}
    /\ AllIdle
    /\ tickPc' = "none"
    /\ ctlPc' = "idle"
    /\ hist' = Hist("resetOctahedra.end", "control", <<>>)
    /\ UNCHANGED << transforms, grid, boundaryManager, startingPositions, gridInitialized,
                    generationActive, shouldStopThread, pendingNewPositions, genPc, probe,
                    queueVars, shouldSpawnVector, newPositionsVector, positionsMutex, todo,
                    workers, statistics >>

VisibilitySeedPlans == { <<CornerSeed, InnerSeed>>, BlockAround(InnerSeed) }

InitVisibility == InitWith(VisibilitySeedPlans)

NextVisibility ==
    \/ ResetBegin
    \/ \E w \in Workers : VisibilityLoad(w)
    \/ \E w \in Workers : VisibilityStore(w)
    \/ UpdateDone

SpecVisibility == InitVisibility /\ [][NextVisibility]_vars

(***************************************************************************)
(* The render thread beside the generation thread: draw() reads the store  *)
(* and the grid while trySpawningNewOctahedra commits its batch one        *)
(* statement of addOctahedron at a time (part_002:468-475, 559-584,        *)
(* 716-722).                                                               *)
(***************************************************************************)
\* the position addOctahedron is called with next: newPositions is walked in
\* order, todo holding the indices still to come
NextPosition == newPositionsVector[CHOOSE i \in todo : \A other \in todo : i <= other]

\* trySpawningNewOctahedra(0.56f) up to the loop over newPositions
TickPropose ==
    /\ genPc = "loop"
    /\ ~shouldStopThread
    /\ size(transforms) < MaxCells
    /\ \E spawnIndices \in spawnIndexSets(size(transforms), ThreadDeltaTime) :
         \E newPositions \in newPositionLists(M, boundaryManager, spawnIndices) :
            /\ newPositionsVector' = newPositions
            /\ todo' = 1..Len(newPositions)
    /\ genPc' = "spawning"
    /\ tickPc' = "commit"
    /\ hist' = Hist("trySpawningNewOctahedra.begin", "generation", <<ThreadDeltaTime>>)
    /\ UNCHANGED << transforms, grid, boundaryManager, startingPositions, gridInitialized,
                    generationActive, shouldStopThread, pendingNewPositions, ctlPc, probe,
                    queueVars, shouldSpawnVector, positionsMutex, workers, statistics >>

\* addOctahedron(newPos): the test, and transforms.add()
CommitAdd ==
    /\ tickPc = "commit"
    /\ todo # {}
    /\ LET snappedPos == snapToGridPosition(NextPosition)
       IN  IF ~isOccupied(grid, snappedPos) /\ isPointWithinBoundary(boundaryManager, snappedPos)
           THEN /\ transforms' = add(transforms)
                /\ tickPc' = "insert"
                /\ UNCHANGED todo
           ELSE /\ todo' = todo \ {CHOOSE i \in todo : \A other \in todo : i <= other}
                /\ UNCHANGED << transforms, tickPc >>
    /\ hist' = Hist("transforms.add", "generation", NextPosition)
    /\ UNCHANGED << grid, boundaryManager, startingPositions, gridInitialized,
                    generationActive, shouldStopThread, pendingNewPositions, genPc, ctlPc,
                    probe, queueVars, shouldSpawnVector, newPositionsVector, positionsMutex,
                    workers, statistics >>

\* addOctahedron(newPos): grid.insert(snappedPos, index)
CommitInsert ==
    /\ tickPc = "insert"
    /\ grid' = insert(grid, snapToGridPosition(NextPosition), size(transforms) - 1)
    /\ todo' = todo \ {CHOOSE i \in todo : \A other \in todo : i <= other}
    /\ tickPc' = "commit"
    /\ hist' = Hist("grid.insert", "generation", NextPosition)
    /\ UNCHANGED << transforms, boundaryManager, startingPositions, gridInitialized,
                    generationActive, shouldStopThread, pendingNewPositions, genPc, ctlPc,
                    probe, queueVars, shouldSpawnVector, newPositionsVector, positionsMutex,
                    workers, statistics >>

\* updateVisibilityForNewCells(newPositions), and the return of the tick
CommitUpdate ==
    /\ tickPc = "commit"
    /\ todo = {}
    /\ transforms' = IF newPositionsVector # <<>>
                     THEN updateVisibilityForNewCells(M, newPositionsVector).transforms
                     ELSE transforms
    /\ newPositionsVector' = <<>>
    /\ tickPc' = "none"
    /\ genPc' = "ticked"
    /\ hist' = Hist("trySpawningNewOctahedra", "generation", newPositionsVector)
    /\ UNCHANGED << grid, boundaryManager, startingPositions, gridInitialized,
                    generationActive, shouldStopThread, pendingNewPositions, ctlPc, probe,
                    queueVars, shouldSpawnVector, positionsMutex, todo, workers, statistics >>

\* draw(): the render thread reads transforms.size() and, for the ids below
\* it, grid.getPositionForIndex(i)
Draw ==
    /\ ctlPc = "idle"
    /\ probe' = [fn |-> "draw", size |-> size(transforms),
                 positions |-> [i \in 1..size(transforms) |->
                                   getPositionForIndex(grid, i - 1)]]
    /\ hist' = Hist("draw", "control", <<>>)
    /\ UNCHANGED << transforms, grid, boundaryManager, startingPositions, gridInitialized,
                    generationActive, shouldStopThread, pendingNewPositions, genPc, ctlPc,
                    queueVars, tickVars >>

RenderSeedPlans == { <<InnerSeed>>, <<CornerSeed, InnerSeed>> }

InitRender == InitWith(RenderSeedPlans)

NextRender ==
    \/ StartGenerationThread
    \/ StopGenerationThread
    \/ StopJoined
    \/ GenerationYield
    \/ GenerationExit
    \/ TickPropose
    \/ CommitAdd
    \/ CommitInsert
    \/ CommitUpdate
    \/ Draw

SpecRender == InitRender /\ [][NextRender]_vars

(***************************************************************************)
(* The growth loop in a small boundary: the boundary is set and resized to *)
(* a box of a few lattice positions before the first start, and the        *)
(* generation thread then runs until the box is full.                      *)
(***************************************************************************)
\* the boundary after setBoundaryWidth(0), setBoundaryDepth(10),
\* setBoundaryHeight(5), handleResizing with the right key (width 10, the
\* center moves to (15, 12.5, 15)) and setBoundaryWidth(8), setBoundaryDepth(8),
\* setBoundaryHeight(4): the box [11, 19] x [10.5, 14.5] x [11, 19], which
\* holds the positions of the coordinates (2..3, 4, 2..3) and (2, 5, 2)
SmallBoundaryLength == 8 * WorldUnit
SmallBoundaryHeight == 4 * WorldUnit
SmallBoundaryManager ==
    LET sized == setBoundaryHeight(
                     setBoundaryDepth(setBoundaryWidth(NewBoundaryManager, 0), ResizeSpeed),
                     ResizeSpeed \div 2)
        centered == handleResizing(sized, TRUE, FALSE, FALSE, FALSE)
    IN  setBoundaryHeight(
            setBoundaryDepth(setBoundaryWidth(centered, SmallBoundaryLength),
                             SmallBoundaryLength),
            SmallBoundaryHeight)

\* starting positions in the small boundary: one cell in either layer, and
\* two cells on a diagonal of the lower layer
SaturationSeedPlans ==
    { << coordinatesToPosition(2, 4, 2) >>,
      << coordinatesToPosition(2, 5, 2) >>,
      << coordinatesToPosition(2, 4, 2), coordinatesToPosition(3, 4, 3) >> }

\* one pass of the loop of generationThreadFunc: trySpawningNewOctahedra(0.56f)
\* with the store as large as the boundary lets it grow
GrowthLoopTick ==
    /\ genPc = "loop"
    /\ ~shouldStopThread
    /\ \E spawnIndices \in spawnIndexSets(size(transforms), ThreadDeltaTime) :
         \E newPositions \in newPositionLists(M, boundaryManager, spawnIndices) :
            LET m == commitNewPositions(M, boundaryManager, newPositions)
            IN  /\ transforms' = m.transforms
                /\ grid' = m.grid
                /\ hist' = Hist("trySpawningNewOctahedra", "generation", <<ThreadDeltaTime>>)
    /\ genPc' = "ticked"
    /\ UNCHANGED << boundaryManager, startingPositions, gridInitialized, generationActive,
                    shouldStopThread, pendingNewPositions, ctlPc, probe >>
    /\ UNCHANGED << queueVars, tickVars >>

\* the draws of the next pass can make some cell propose a position
CanGrow ==
    /\ genPc = "loop"
    /\ ~shouldStopThread
    /\ \E spawnIndices \in spawnIndexSets(size(transforms), ThreadDeltaTime) :
         \E newPositions \in newPositionLists(M, boundaryManager, spawnIndices) :
            newPositions # <<>>

\* the manager after its constructor and the boundary calls above
InitSaturation ==
    /\ transforms = NewTransformData
    /\ grid = DefaultGrid
    /\ boundaryManager = SmallBoundaryManager
    /\ startingPositions \in SaturationSeedPlans
    /\ gridInitialized = FALSE
    /\ generationActive = FALSE
    /\ shouldStopThread = FALSE
    /\ pendingNewPositions = <<>>
    /\ genPc = "none"
    /\ ctlPc = "idle"
    /\ hist = [op |-> "setBoundaryHeight", actor |-> "control",
               arg |-> <<SmallBoundaryHeight>>, sizeBefore |-> 0]
    /\ probe = NoProbe
    /\ newPositionsToApply = <<>>
    /\ applyIndex = 0
    /\ queueLog = EmptyQueueLog
    /\ tickPc = "none"
    /\ shouldSpawnVector = <<>>
    /\ newPositionsVector = <<>>
    /\ positionsMutex = NoWorker
    /\ todo = {}
    /\ workers = [w \in Workers |-> IdleWorker]
    /\ statistics = NewStatistics

NextSaturation ==
    \/ StartGenerationThread
    \/ GrowthLoopTick
    \/ GenerationYield

SpecSaturation == InitSaturation /\ [][NextSaturation]_vars

\* the scheduler lets the thread go on after its yield, and the draws are
\* fair: when a pass that adds a cell is possible again and again, one is
\* taken again and again
SpecSaturationFair ==
    /\ SpecSaturation
    /\ WF_vars(GenerationYield)
    /\ \/ <>[](~CanGrow)
       \/ []<><<GrowthLoopTick /\ size(transforms') > size(transforms)>>_vars

(***************************************************************************)
(* Properties.                                                             *)
(***************************************************************************)
\* the cell ids of the store: [0, getCount())
CellIds == 0..(size(transforms) - 1)

\* the position the grid's reverse map gives for a cell id
PositionOf(id) == getPositionForIndex(grid, id)

\* the cell id owns the grid slot of its position
OwnsSlot(id) == findCellIndex(grid, PositionOf(id)) = id

\* the last operation recomputed every cell's visibility from the grid
FullyUpdated == hist.op \in {"resetOctahedra", "updateVisibility"}

\* pos is the position of a lattice coordinate
IsLatticePosition(pos) ==
    pos = positionsOf(<<positionToCoordinates(pos)>>)[1]

\* the fourteen neighbour coordinates of the cell at pos all lie in the grid
AllNeighborCoordinatesValid(pos) ==
    \A i \in 1..Len(neighborCoordinates(pos)) :
        isValidCoordinate(grid, neighborCoordinates(pos)[i][1],
                          neighborCoordinates(pos)[i][2], neighborCoordinates(pos)[i][3])

\* every neighbour position the grid lists for pos holds a cell
AllNeighborsInserted(pos) ==
    \A q \in Range(getNeighborPositions(grid, pos, FALSE)) : isOccupied(grid, q)

\* the distinct cells in the neighbour slots of pos
NeighborCells(pos) ==
    { getOccupiedNeighbors(grid, pos)[i].cellIndex
      : i \in 1..Len(getOccupiedNeighbors(grid, pos)) }

Abs(n) == IF n >= 0 THEN n ELSE -n

\* the distances between two positions along x, y and z
AxisDistances(p, q) == << Abs(p[1] - q[1]), Abs(p[2] - q[2]), Abs(p[3] - q[3]) >>

\* C1: while the generation thread is running, a step changes the grid or
\* the cell store only if it is the control thread's applyPendingChanges,
\* and a step of the generation thread changes neither.
C1_OnlyApplyMutatesWhileRunning ==
    [][ /\ (genPc \in {"loop", "ticked"} /\ (transforms' # transforms \/ grid' # grid))
           => (hist'.op = "applyPendingChanges" /\ hist'.actor = "control")
        /\ (hist' # hist /\ hist'.actor = "generation")
           => (transforms' = transforms /\ grid' = grid) ]_vars

\* C2: after addOctahedron, trySpawningNewOctahedra or applyPendingChanges
\* every cell id owns the grid slot of its position, and no two ids have the
\* same lattice coordinate.
C2_IdCoordinateBijection ==
    hist.op \in {"addOctahedron", "trySpawningNewOctahedra", "applyPendingChanges"}
    => /\ \A id \in CellIds : OwnsSlot(id)
       /\ \A a \in CellIds : \A b \in CellIds :
            a # b => positionToCoordinates(PositionOf(a)) # positionToCoordinates(PositionOf(b))

\* C3: the second of two successive addOctahedron(p) calls changes neither
\* the cell store nor the grid, and the two calls together add one cell.
C3_AddTwiceAddsOne ==
    [][ (hist.op = "addOctahedron" /\ hist'.op = "addOctahedron" /\ hist'.arg = hist.arg)
        => /\ transforms' = transforms
           /\ grid' = grid
           /\ size(transforms') = hist.sizeBefore + 1 ]_vars

\* C4: insert(pos, id) into a slot that already holds a cell leaves the grid
\* as it is: the slot, its stored position and the reverse map.
C4_InsertFirstWriterWins ==
    [][ (hist' # hist /\ hist'.op = "insert" /\ isOccupied(grid, hist'.arg[1]))
        => grid' = grid ]_vars

\* C5: for a lattice position p inside the grid, every position q that
\* getNeighborPositions(p) lists has p in getNeighborPositions(q).
C5_NeighborRelationSymmetric ==
    (/\ probe.fn = "getNeighborPositions"
     /\ ~probe.filterOccupied
     /\ IsLatticePosition(probe.pos)
     /\ positionToIndex(grid, probe.pos) < GridSize(grid))
    => \A i \in 1..Len(probe.result) :
         probe.pos \in Range(getNeighborPositions(grid, probe.result[i], FALSE))

\* C6: for a cell whose neighbour coordinates all lie in the grid,
\* getNeighborPositions returns 14 pairwise distinct positions, the same on
\* every call: first 6 at SQUARE_DISTANCE along one axis, then 8 at half a
\* cell along all three axes.
C6_FourteenDistinctNeighbors ==
    (/\ probe.fn = "getNeighborPositions"
     /\ ~probe.filterOccupied
     /\ IsLatticePosition(probe.pos)
     /\ AllNeighborCoordinatesValid(probe.pos))
    => /\ Len(probe.result) = FullNeighborCount
       /\ probe.result = getNeighborPositions(grid, probe.pos, FALSE)
       /\ \A i \in 1..Len(probe.result) : \A j \in 1..Len(probe.result) :
            i # j => probe.result[i] # probe.result[j]
       /\ \A i \in 1..Len(probe.result) :
            IF i <= 6
            THEN AxisDistances(probe.pos, probe.result[i])
                     \in { <<SQUARE_DISTANCE, 0, 0>>, <<0, SQUARE_DISTANCE, 0>>,
                           <<0, 0, SQUARE_DISTANCE>> }
            ELSE AxisDistances(probe.pos, probe.result[i])
                     = << SQUARE_DISTANCE \div 2, SQUARE_DISTANCE \div 2,
                          SQUARE_DISTANCE \div 2 >>

\* C7: a growth tick, which ends with updateVisibilityForNewCells on its
\* batch, taken where every cell's (neighborCount, visible) equals the full
\* rescan's, leads to a state where it does so again.
C7_IncrementalMatchesRescan ==
    [][ (hist' # hist /\ hist'.op = "trySpawningNewOctahedra" /\ VisibilityExact(M))
        => VisibilityExact(M') ]_vars

C9_InvisibleHasFourteenCells ==
    FullyUpdated
    => \A id \in CellIds :
         (OwnsSlot(id) /\ ~isVisible(transforms, id))
         => Cardinality(NeighborCells(PositionOf(id))) = FullNeighborCount

SingleSeedAtOrigin ==
    /\ size(transforms) = 1
    /\ OwnsSlot(0)
    /\ PositionOf(0) = <<0, 0, 0>>
    /\ ~boundaryManager.boundaryEnabled

\* the step is a growth tick in which every draw makes its cell a candidate
CertainTick == hist'.op = "trySpawningNewOctahedra" /\ hist'.arg = <<CertainDeltaTime>>

\* C11, as stated: from a single seed cell at the origin and with the
\* boundary test off, a growth tick in which every cell is a candidate
\* leaves 15 cells, the seed with neighborCount 14 and not visible.
C11_TickFillsAllNeighbors ==
    [][ (SingleSeedAtOrigin /\ CertainTick)
        => (/\ size(transforms') = 1 + FullNeighborCount
            /\ getNeighborCount(transforms', 0) = FullNeighborCount
            /\ ~isVisible(transforms', 0)) ]_vars

\* C11, amended: from a single seed cell at the origin and with the
\* boundary test off, a growth tick in which every cell is a candidate adds
\* exactly one cell, in a neighbour slot of the seed; the seed then has
\* neighborCount 1 or 2 and is visible.
C11_TickAddsOneNeighbor ==
    [][ (SingleSeedAtOrigin /\ CertainTick)
        => (/\ size(transforms') = 2
            /\ getPositionForIndex(grid', 1)
                   \in Range(getNeighborPositions(grid, <<0, 0, 0>>, FALSE))
            /\ getNeighborCount(transforms', 0) \in {1, 2}
            /\ isVisible(transforms', 0)) ]_vars

\* a growth tick with certain candidacy has just run on a single seed at the
\* origin, the boundary test being off
C11_Witness ==
    /\ hist.op = "trySpawningNewOctahedra"
    /\ hist.arg = <<CertainDeltaTime>>
    /\ hist.sizeBefore = 1
    /\ PositionOf(0) = <<0, 0, 0>>
    /\ OwnsSlot(0)
    /\ ~boundaryManager.boundaryEnabled
    /\ size(transforms) = 2

\* the step is a growth tick, of either thread
GrowthTick == hist'.op = "trySpawningNewOctahedra"

\* C12: a growth tick adds at most as many cells as the store held when it
\* began: every cell proposes at most one position, so getCount() at most
\* doubles.
C12_TickAtMostDoubles ==
    [][ GrowthTick
        => (/\ size(transforms') >= size(transforms)
            /\ size(transforms') - size(transforms) <= size(transforms)) ]_vars

\* a growth tick has taken a one-cell store to two cells, and the first cell
\* still has free neighbour slots
C12_Witness ==
    /\ hist.op = "trySpawningNewOctahedra"
    /\ hist.sizeBefore = 1
    /\ size(transforms) = 2
    /\ OwnsSlot(0)
    /\ Len(getAvailableNeighbors(grid, PositionOf(0))) >= 2

\* C13: a growth tick called with deltaTime 0 changes neither the cell store
\* (count, visibility, neighbour counts) nor the grid.
C13_ZeroIntensityTickChangesNothing ==
    [][ (GrowthTick /\ hist'.arg = <<0>>)
        => (transforms' = transforms /\ grid' = grid) ]_vars

\* C14: with the boundary enabled and as constructed, every id of the store
\* has a position inside the boundary, and every occupied slot of the grid
\* holds a position inside the boundary.
C14_CellsInsideBoundary ==
    /\ \A id \in CellIds : isPointWithinBoundary(boundaryManager, PositionOf(id))
    /\ \A index \in DOMAIN grid.cells :
          isPointWithinBoundary(boundaryManager, grid.cells[index].position)

\* C15: once stopGenerationThread has returned, and until the next start,
\* isGenerationActive() is false, no generation thread exists (so no growth
\* tick can run) and pendingNewPositions is empty.
C15_StopLeavesNoThread ==
    /\ hist.op = "stopGenerationThread.join"
       => (~generationActive /\ genPc = "none" /\ pendingNewPositions = <<>>)
    /\ (ctlPc = "idle" /\ ~generationActive)
       => (genPc = "none" /\ pendingNewPositions = <<>>)

\* stopGenerationThread has just returned from its join, after a run in
\* which the thread added a cell
C15_Witness ==
    /\ hist.op = "stopGenerationThread.join"
    /\ gridInitialized
    /\ size(transforms) > Len(startingPositions)

\* every cell of the store keeps its id and its position over the step,
\* and the store does not shrink
CellsKept ==
    /\ size(transforms') >= size(transforms)
    /\ \A id \in CellIds :
          /\ getPositionForIndex(grid', id) = PositionOf(id)
          /\ OwnsSlot(id) => findCellIndex(grid', PositionOf(id)) = id

\* the step belongs to a stopGenerationThread call: the call itself, the
\* steps of the generation thread while the caller waits in join, the return
StopStep == hist'.op = "stopGenerationThread" \/ ctlPc = "joining" \/ ctlPc' = "joining"

\* C16, as stated: every cell keeps its id and position, and getCount()
\* does not decrease, across a stopGenerationThread call and across a
\* startGenerationThread call.
C16_StopAndStartKeepCells ==
    [][ (StopStep \/ hist'.op = "startGenerationThread") => CellsKept ]_vars

\* C16, amended: every cell keeps its id and position, and getCount() does
\* not decrease, across a stopGenerationThread call and across a
\* startGenerationThread call made after the first start (gridInitialized).
C16_StopAndRestartKeepCells ==
    [][ (StopStep \/ (hist'.op = "startGenerationThread" /\ gridInitialized))
        => CellsKept ]_vars

\* the thread has been started again, on a store that holds a cell grown in
\* an earlier run
C16_Witness ==
    /\ hist.op = "startGenerationThread"
    /\ hist.arg = <<TRUE>>
    /\ generationActive
    /\ genPc = "loop"
    /\ size(transforms) > Len(startingPositions)

\* C17: applyPendingChanges called with an empty pendingNewPositions
\* changes neither the cell store nor the grid, whether a generation thread
\* is running or not.
C17_ApplyOnEmptyQueueIsNoOp ==
    [][ (hist'.op = "applyPendingChanges" /\ pendingNewPositions = <<>>)
        => (transforms' = transforms /\ grid' = grid /\ pendingNewPositions' = <<>>) ]_vars

\* applyPendingChanges has just run while the generation thread was in its
\* loop
C17_Witness ==
    /\ hist.op = "applyPendingChanges"
    /\ genPc \in {"loop", "ticked"}
    /\ size(transforms) >= 1
    /\ pendingNewPositions = <<>>

\* the operations that would resize the boundary
ResizeOps ==
    {"handleBoundaryResizing", "setBoundaryWidth", "setBoundaryDepth", "setBoundaryHeight"}

\* C18: once the boundary is locked (lockBoundarySize, or the first
\* startGenerationThread), a handleResizing, setBoundaryWidth, setBoundaryDepth
\* or setBoundaryHeight call leaves width, depth, height and center as they
\* were, and so does RectangleBoundary::resize with any keys.
C18_ResizeAfterLockRejected ==
    [][ ~boundaryManager.boundary.isResizable
        => /\ hist'.op \in ResizeOps => boundaryManager' = boundaryManager
           /\ \A keys \in [1..4 -> BOOLEAN] :
                resize(boundaryManager.boundary, keys[1], keys[2], keys[3], keys[4])
                    = boundaryManager.boundary ]_vars

\* setBoundaryWidth was called with another width on a locked boundary, which
\* still has its default width
C18_Witness ==
    /\ ~boundaryManager.boundary.isResizable
    /\ hist.op = "setBoundaryWidth"
    /\ hist.arg[1] # boundaryManager.boundary.width
    /\ boundaryManager.boundary.width = DefaultBoundaryWidth

\* the run was started, has been stopped and joined, and resetOctahedra was
\* the last call
StoppedAndReset ==
    /\ gridInitialized
    /\ ~generationActive
    /\ Sequential
    /\ hist.op = "resetOctahedra"

\* C19: after a run has been started, stopped and reset, a setBoundaryWidth,
\* setBoundaryDepth or setBoundaryHeight call made before the next start
\* takes effect: the boundary has the length that was passed.
C19_SetTakesEffectBetweenRuns ==
    [][ StoppedAndReset
        => /\ hist'.op = "setBoundaryWidth"
                => boundaryManager'.boundary.width = hist'.arg[1]
           /\ hist'.op = "setBoundaryDepth"
                => boundaryManager'.boundary.depth = hist'.arg[1]
           /\ hist'.op = "setBoundaryHeight"
                => boundaryManager'.boundary.height = hist'.arg[1] ]_vars

\* positions on both sides of the default boundary's faces
BoundaryProbes ==
    { <<0, 0, 0>>, CornerSeed, InnerSeed,
      << CornerSeed[1], CornerSeed[2] + 10 * SQUARE_DISTANCE, CornerSeed[3] >> }

\* C20: once the boundary is locked, no step changes the value of
\* isPointWithinBoundary(p) for any position p.
C20_LockedBoundaryAnswersAlike ==
    [][ ~boundaryManager.boundary.isResizable
        => \A p \in BoundaryProbes :
              isPointWithinBoundary(boundaryManager', p)
                  = isPointWithinBoundary(boundaryManager, p) ]_vars

\* the lattice coordinate of the slot a world position snaps to
CoordinateOf(pos) == positionToCoordinates(snapToGridPosition(pos))

\* the coordinate lies in [0, gridLength) x [0, gridHeight) x [0, gridWidth)
InsideGrid(c) ==
    /\ c[1] \in 0..(grid.gridLength - 1)
    /\ c[2] \in 0..(grid.gridHeight - 1)
    /\ c[3] \in 0..(grid.gridWidth - 1)

\* positions whose coordinates lie beyond each face of the default grid
OutsidePositions ==
    { FarSeed,
      coordinatesToPosition(-1, 6, 4),
      coordinatesToPosition(4, -1, 4),
      coordinatesToPosition(4, 5, -1),
      coordinatesToPosition(DefaultGridDim, 6, 4),
      coordinatesToPosition(4, DefaultGridDim, 4),
      << -3, 12, 16 >> }

\* C21: a position whose lattice coordinate is outside the grid is an
\* unavailable slot: insert leaves the grid and the reverse map as they were,
\* isOccupied is false and findCellIndex is SIZE_MAX for it, and
\* getAvailableNeighbors (getNeighborPositions with filterOccupied) returns no
\* such position.
C21_OutOfGridIsUnavailable ==
    /\ [][ (hist' # hist /\ hist'.op = "insert" /\ ~InsideGrid(CoordinateOf(hist'.arg[1])))
           => grid' = grid ]_vars
    /\ [](\A p \in OutsidePositions :
             ~InsideGrid(CoordinateOf(p))
                 => (~isOccupied(grid, p) /\ findCellIndex(grid, p) = SIZE_MAX))
    /\ []((probe.fn = "getNeighborPositions" /\ probe.filterOccupied)
             => \A i \in 1..Len(probe.result) : InsideGrid(CoordinateOf(probe.result[i])))

\* the grid holds a cell, the last insert was of a position outside the grid,
\* and the last query, on a face of the grid, returned the available
\* neighbours, fewer than fourteen
C21_Witness ==
    /\ grid.cells # <<>>
    /\ hist.op = "insert"
    /\ ~InsideGrid(CoordinateOf(hist.arg[1]))
    /\ probe.fn = "getNeighborPositions"
    /\ probe.filterOccupied
    /\ Len(probe.result) \in 1..(FullNeighborCount - 1)
    /\ \E c \in ProbeCoordinates :
          /\ c[1] = 0
          /\ probe.pos = coordinatesToPosition(c[1], c[2], c[3])

\* the step is an insert of cell index id that the grid accepts
InsertsInGrid(id) ==
    /\ hist' # hist
    /\ hist'.op = "insert"
    /\ hist'.arg[2] = id
    /\ InsideGrid(CoordinateOf(hist'.arg[1]))

\* C22: getPositionForIndex(id) is the snapped position of the last insert of
\* id that the grid accepted, and the sentinel (0,0,0) for an id without one;
\* the call leaves the grid as it is.
C22_PositionForIndexIsRecorded ==
    /\ \A id \in 0..MaxGridIds : getPositionForIndex(grid, id) = <<0, 0, 0>>
    /\ [][ \A id \in 0..MaxGridIds :
             getPositionForIndex(grid', id)
                 = IF InsertsInGrid(id) THEN snapToGridPosition(hist'.arg[1])
                   ELSE getPositionForIndex(grid, id) ]_vars
    /\ [][ (probe' # probe /\ probe'.fn = "getPositionForIndex")
           => /\ grid' = grid
              /\ probe'.result = getPositionForIndex(grid', probe'.cellIndex) ]_vars

\* cell index 0 was inserted off the raster and then, without effect, outside
\* the grid: the query returns the snapped position of the first insert; cell
\* index 1 has no insert
C22_Witness ==
    /\ hist.op = "insert"
    /\ hist.arg = <<FarSeed, 0>>
    /\ probe.fn = "getPositionForIndex"
    /\ probe.cellIndex = 0
    /\ probe.result = getPositionForIndex(grid, 0)
    /\ probe.result # <<0, 0, 0>>
    /\ probe.result # InnerSeed
    /\ getPositionForIndex(grid, 1) = <<0, 0, 0>>

\* C23: for every lattice coordinate c, of either layer parity and of either
\* sign, positionToCoordinates(coordinatesToPosition(c)) = c, and the
\* lattice-aligned position p = coordinatesToPosition(c) satisfies
\* coordinatesToPosition(positionToCoordinates(p)) = p.
C23_MapperRoundTrip ==
    probe.fn = "coordinatesToPosition"
    => /\ probe.coordinates = probe.c
       /\ coordinatesToPosition(probe.coordinates[1], probe.coordinates[2],
                                probe.coordinates[3]) = probe.position
       /\ positionToCoordinates(probe.position) = probe.coordinates

\* a coordinate of an odd layer with negative x and z was mapped: its
\* position carries the half-cell shift
C23_Witness ==
    /\ probe.fn = "coordinatesToPosition"
    /\ probe.c = <<-2, -1, -3>>
    /\ probe.position = << -2 * SQUARE_DISTANCE + SQUARE_DISTANCE \div 2,
                           -(SQUARE_DISTANCE \div 2),
                           -3 * SQUARE_DISTANCE + SQUARE_DISTANCE \div 2 >>

\* the lattice coordinates the sized grid accepts, among those mapped
AcceptedCoordinates == { c \in MapperCoordinates : InsideGrid(c) }

\* C30: in a grid of any dimensions, positionToIndex gives distinct indices,
\* all below grid.size(), to distinct coordinates inside the grid, and
\* SIZE_MAX to every coordinate outside it.
C30_DenseIndexInjective ==
    probe.fn = "coordinatesToPosition"
    => IF InsideGrid(probe.c)
       THEN /\ probe.index < GridSize(grid)
            /\ \A c \in AcceptedCoordinates \ {probe.c} :
                  positionToIndex(grid, coordinatesToPosition(c[1], c[2], c[3]))
                      # probe.index
       ELSE probe.index = SIZE_MAX

\* in a grid longer than wide, resized from the default one, the last slot of
\* the first row was indexed
C30_Witness ==
    /\ hist.op = "resizeGrid"
    /\ grid.gridLength > grid.gridWidth
    /\ probe.fn = "coordinatesToPosition"
    /\ probe.c = <<grid.gridLength - 1, 1, 0>>
    /\ probe.index = grid.gridLength * grid.gridWidth + grid.gridLength - 1

\* the step discards the store: resetOctahedra, or the first
\* startGenerationThread, which begins the run with createInitialOctahedra
ResetStep ==
    \/ hist'.op = "resetOctahedra"
    \/ hist'.op = "startGenerationThread" /\ ~gridInitialized

\* the ids the grid's reverse map knows
KnownIds(g) == DOMAIN g.indexToPositionMap

\* the records appended by the step have the ids size, size + 1, ...: both
\* columns grow alike, the old records keep their place, and the ids the grid
\* learns are those of appended records
AppendedInOrder ==
    /\ Len(transforms'.neighbor_counts) = size(transforms')
    /\ size(transforms') >= size(transforms)
    /\ \A id \in KnownIds(grid') \ KnownIds(grid) :
          id >= size(transforms) /\ id < size(transforms')
    /\ KnownIds(grid) \subseteq KnownIds(grid')

\* C24: the cell store is append-only within a run: every step other than a
\* reset keeps every record, does not lower getCount(), leaves each existing
\* id at its position, and gives new cells the ids from the size before the
\* append upwards.
C24_StoreAppendOnly ==
    [][ ~ResetStep => (CellsKept /\ AppendedInOrder) ]_vars

\* a growth tick of the generation thread appended cell 1 to a store that
\* held cell 0
C24_Witness ==
    /\ hist.op = "trySpawningNewOctahedra"
    /\ hist.actor = "generation"
    /\ hist.sizeBefore = 1
    /\ size(transforms) = 2
    /\ KnownIds(grid) = {0, 1}
    /\ PositionOf(0) # PositionOf(1)

\* the variables of the program, without the record of the last call
programVars ==
    << transforms, grid, boundaryManager, startingPositions, gridInitialized,
       generationActive, shouldStopThread, pendingNewPositions, genPc, ctlPc >>

\* C25: startGenerationThread while generationActive and stopGenerationThread
\* while not are no-ops; isGenerationActive() becomes true at a start, false
\* at the following stop and changes at no other step; a start creates the
\* growth thread only when none exists, and one exists while the flag is set.
C25_CoordinatorStateMachine ==
    /\ ~generationActive /\ genPc = "none"
    /\ [][ /\ (hist'.op = "startGenerationThread" /\ generationActive)
              => UNCHANGED programVars
           /\ (hist'.op = "stopGenerationThread" /\ ~generationActive)
              => UNCHANGED programVars
           /\ generationActive'
                  = IF hist'.op = "startGenerationThread" THEN TRUE
                    ELSE IF hist'.op = "stopGenerationThread" THEN FALSE
                    ELSE generationActive
           /\ (hist'.op = "startGenerationThread" /\ ~generationActive)
              => (genPc = "none" /\ genPc' = "loop")
           /\ generationActive' => genPc' \in {"loop", "ticked"} ]_vars

\* the thread has ticked and the last call was a start, which found the
\* generation active and left the thread where it was
C25_Witness ==
    /\ hist.op = "startGenerationThread"
    /\ hist.arg = <<TRUE>>
    /\ generationActive
    /\ genPc = "ticked"
    /\ size(transforms) = 2

\* the snapped starting positions
SnappedSeeds == { snapToGridPosition(startingPositions[i]) : i \in 1..Len(startingPositions) }

\* the first starting position, which the boundary and the new grid accept
FirstSeedAccepted ==
    /\ startingPositions # <<>>
    /\ isPointWithinBoundary(boundaryManager, snapToGridPosition(startingPositions[1]))
    /\ positionToIndex(grid', snapToGridPosition(startingPositions[1])) < GridSize(grid')

\* C26: after resetOctahedra no cell of the previous run other than a seed is
\* found by findCellIndex; every slot and every record of the reverse map
\* belongs to a seed position and to an id of the new store, which holds at
\* most one record per starting position and gives id 0 to the first seed;
\* the neighbour counts are those of a full rescan; pendingNewPositions is
\* empty.
C26_ResetDiscardsAndReseeds ==
    [][ hist'.op = "resetOctahedra"
        => /\ \A id \in CellIds :
                 PositionOf(id) \notin SnappedSeeds
                     => findCellIndex(grid', PositionOf(id)) = SIZE_MAX
           /\ \A index \in DOMAIN grid'.cells :
                 /\ grid'.cells[index].position \in SnappedSeeds
                 /\ grid'.cells[index].cellIndex < size(transforms')
           /\ \A id \in KnownIds(grid') :
                 /\ id < size(transforms')
                 /\ getPositionForIndex(grid', id) \in SnappedSeeds
           /\ size(transforms') <= Len(startingPositions)
           /\ FirstSeedAccepted
                 => getPositionForIndex(grid', 0) = snapToGridPosition(startingPositions[1])
           /\ VisibilityExact([transforms |-> transforms', grid |-> grid'])
           /\ pendingNewPositions' = <<>> ]_vars

\* a run grew a second cell from one seed and was stopped; the reset left the
\* seed alone
C26_Witness ==
    /\ hist.op = "resetOctahedra"
    /\ gridInitialized
    /\ hist.sizeBefore = 2
    /\ Len(startingPositions) = 1
    /\ size(transforms) = 1
    /\ KnownIds(grid) = {0}

\* the number of entries of a list equal to p
CountOf(list, p) == Len(SelectSeq(list, LAMBDA q : q = p))

\* the part of newPositionsToApply not yet passed to addOctahedron
ToApplyRest == SubSeq(newPositionsToApply, applyIndex + 1, Len(newPositionsToApply))

\* C27: every position appended to pendingNewPositions is, as often as it was
\* appended, either passed to addOctahedron once, or discarded by a stop, or
\* still waiting in the queue or in the list applyPendingChanges took; the
\* positions are applied in the order of their appending.
C27_QueueHandoffExactlyOnce ==
    /\ \A p \in Range(queueLog.appended) \cup Range(queueLog.applied)
                  \cup Range(queueLog.discarded) :
          CountOf(queueLog.appended, p)
              = CountOf(queueLog.applied, p) + CountOf(queueLog.discarded, p)
                    + CountOf(ToApplyRest, p) + CountOf(pendingNewPositions, p)
    /\ Len(queueLog.appended)
          = Len(queueLog.applied) + Len(queueLog.discarded)
                + Len(ToApplyRest) + Len(pendingNewPositions)
    /\ (queueLog.discarded = <<>>)
          => queueLog.appended = queueLog.applied \o ToApplyRest \o pendingNewPositions

\* the producer appended a batch while applyPendingChanges held the batch it
\* had taken before, with a position of it still to be passed to addOctahedron
C27_Witness ==
    /\ ctlPc = "applying"
    /\ applyIndex < Len(newPositionsToApply)
    /\ pendingNewPositions # <<>>
    /\ hist.op = "generateCellBatch"
    /\ queueLog.appended = newPositionsToApply \o pendingNewPositions

\* the cell found at pos, if any, has the neighbour count and the visibility
\* that the grid g gives it
CountedFrom(g, t, pos) ==
    findCellIndex(g, pos) \in 0..(size(t) - 1)
    => /\ getNeighborCount(t, findCellIndex(g, pos)) = Len(getOccupiedNeighbors(g, pos))
       /\ isVisible(t, findCellIndex(g, pos))
             = (Len(getOccupiedNeighbors(g, pos)) < FullNeighborCount)

\* C29: updateVisibilityForNewCells runs on a batch only after the last
\* addOctahedron of the batch: applyPendingChanges reaches it with every
\* position of the list it took handed over and no cell added in between, and
\* after it, in applyPendingChanges and in trySpawningNewOctahedra, every cell
\* of the batch has the neighbour count of the grid that holds the whole
\* batch.
C29_VisibilityAfterWholeBatch ==
    [][ /\ (hist' # hist /\ hist'.op = "applyPendingChanges.update")
           => /\ applyIndex = Len(newPositionsToApply)
              /\ hist.op = "applyPendingChanges.add" \/ hist.actor = "generation"
              /\ grid' = grid
              /\ size(transforms') = size(transforms)
              /\ \A i \in 1..Len(newPositionsToApply) :
                    CountedFrom(grid', transforms', newPositionsToApply[i])
        /\ (hist' # hist /\ hist'.op = "applyPendingChanges.add")
           => \A id \in CellIds : /\ getNeighborCount(transforms', id) = getNeighborCount(transforms, id)
                                  /\ isVisible(transforms', id) = isVisible(transforms, id)
        /\ (hist' # hist /\ hist'.op = "trySpawningNewOctahedra")
           => \A id \in size(transforms)..(size(transforms') - 1) :
                 CountedFrom(grid', transforms', getPositionForIndex(grid', id)) ]_vars

\* applyPendingChanges has just updated a batch of two new cells, one of them
\* a listed neighbour of the other
C29_Witness ==
    /\ hist.op = "applyPendingChanges.update"
    /\ Len(hist.arg) = 2
    /\ findCellIndex(grid, hist.arg[1]) = size(transforms) - 2
    /\ findCellIndex(grid, hist.arg[2]) = size(transforms) - 1
    /\ \/ hist.arg[2] \in Range(getNeighborPositions(grid, hist.arg[1], FALSE))
       \/ hist.arg[1] \in Range(getNeighborPositions(grid, hist.arg[2], FALSE))
    /\ getNeighborCount(transforms, size(transforms) - 1) >= 1

\* two threads of a parallel algorithm are both between reading and writing
\* the same object, with no lock held
Racing(pc) ==
    \E w1 \in Workers : \E w2 \in Workers \ {w1} :
        workers[w1].pc = pc /\ workers[w2].pc = pc

\* C28: in the parallel phases of trySpawningNewOctahedra no two workers are
\* inside unsynchronised updates of the same shared object: not of the word
\* that holds the shouldSpawn bits, not of the availability counters; a
\* worker's assignment to shouldSpawn[idx] changes no other element, its +=
\* on a counter adds to the counter's current value, and the placement
\* counters and newPositions are written only by the holder of positionsMutex.
C28_NoDataRaceInEvaluation ==
    /\ [](~Racing("loaded") /\ ~Racing("counting"))
    /\ [][ /\ \A w \in Workers :
                (workers[w].pc = "loaded" /\ workers'[w].pc = "idle")
                => \A i \in 1..Len(shouldSpawnVector) :
                      i # workers[w].idx + 1 => shouldSpawnVector'[i] = shouldSpawnVector[i]
           /\ \A w \in Workers :
                (workers[w].pc = "counting" /\ workers'[w].pc # "counting")
                => /\ statistics'.totalSquareFacesAvailable
                         = statistics.totalSquareFacesAvailable
                              + squareFaces(grid, getPositionForIndex(grid, workers[w].idx))
                   /\ statistics'.totalHexagonFacesAvailable
                         = statistics.totalHexagonFacesAvailable
                              + hexagonFaces(grid, getPositionForIndex(grid, workers[w].idx))
           /\ (\/ newPositionsVector' # newPositionsVector /\ tickPc' = "select"
               \/ statistics'.squareFacePlacements # statistics.squareFacePlacements
               \/ statistics'.hexagonFacePlacements # statistics.hexagonFacePlacements)
              => positionsMutex # NoWorker /\ workers[positionsMutex].pc \in {"placing", "pushing"}
         ]_vars

\* lattice positions near the corners of the default boundary and inside it
BoundarySamples ==
    { coordinatesToPosition(c[1], c[2], c[3])
      : c \in {2, 4, 125} \X {4, 6, 20} \X {2, 4, 19, 20, 100, 125} }

\* the last step was the first startGenerationThread, which sized the grid
FirstStartDone ==
    hist.op = "startGenerationThread" /\ hist.arg = <<FALSE>> /\ generationActive

\* C31: after the first startGenerationThread, with the boundary enabled,
\* every lattice position inside the locked boundary has a coordinate that
\* isValidCoordinate accepts.
C31_GridHoldsBoundary ==
    (FirstStartDone /\ boundaryManager.boundaryEnabled)
    => \A p \in BoundarySamples :
          isPointWithinBoundary(boundaryManager, p)
          => isValidCoordinate(grid, positionToCoordinates(p)[1],
                               positionToCoordinates(p)[2], positionToCoordinates(p)[3])

\* C32: once shouldStopThread is set the generation thread begins no tick,
\* and every stopGenerationThread that waits in join() returns, the thread
\* having exited after at most the tick it was in.
C32_StopIsObserved ==
    /\ [][ (hist' # hist /\ hist'.op = "trySpawningNewOctahedra.begin") => ~shouldStopThread ]_vars
    /\ [][ (shouldStopThread /\ genPc \in {"loop", "ticked"} /\ genPc' # genPc)
           => genPc' = "exited" ]_vars
    /\ (ctlPc = "joining") ~> (ctlPc = "idle" /\ genPc = "none")

\* stopGenerationThread waits in join() while the thread is inside a tick,
\* one of its workers holding an element
C32_Witness ==
    /\ ctlPc = "joining"
    /\ shouldStopThread
    /\ genPc = "spawning"
    /\ tickPc = "select"
    /\ \E w \in Workers : workers[w].pc = "picked"

\* C33: between two resets a cell's neighborCount never decreases, and a cell
\* that is not visible never becomes visible again.
C33_CountsMonotone ==
    [][ ~ResetStep
        => \A id \in CellIds :
              /\ getNeighborCount(transforms', id) >= getNeighborCount(transforms, id)
              /\ ~isVisible(transforms, id) => ~isVisible(transforms', id) ]_vars

\* C35: when the parallel loop of updateVisibility has returned, every cell
\* it updated has isVisible(id) == (getNeighborCount(id) < 14), and its count
\* is that of the grid.
C35_NoLostVisibilityUpdate ==
    hist.op = "resetOctahedra.end"
    => \A id \in CellIds :
          /\ getNeighborCount(transforms, id)
                = Len(getOccupiedNeighbors(grid, getPositionForIndex(grid, id)))
          /\ isVisible(transforms, id) = (getNeighborCount(transforms, id) < FullNeighborCount)

\* C34: whenever the render thread reads the store and the grid, every id
\* below the size it read has a recorded position: getPositionForIndex does
\* not return the (0, 0, 0) it gives for an unknown id.
C34_ReaderSeesWholeCells ==
    probe.fn = "draw"
    => \A i \in 1..probe.size : probe.positions[i] # <<0, 0, 0>>

\* the square of the distance between two positions
SquaredDistance(p, q) ==
    (p[1] - q[1]) * (p[1] - q[1]) + (p[2] - q[2]) * (p[2] - q[2])
        + (p[3] - q[3]) * (p[3] - q[3])

\* the square of the smallest distance between two lattice positions, that
\* of a hexagonal step of half a cell along each axis
SquaredLatticeSpacing == 3 * (SQUARE_DISTANCE \div 2) * (SQUARE_DISTANCE \div 2)

\* C36: every position the grid has stored for a cell id is the position of
\* its own lattice coordinate, and two cells that own slots are stored at
\* least the lattice spacing apart.
C36_StoredPositionsLatticeAligned ==
    /\ \A id \in CellIds : IsLatticePosition(PositionOf(id))
    /\ \A i, j \in CellIds :
          (i # j /\ OwnsSlot(i) /\ OwnsSlot(j))
          => SquaredDistance(PositionOf(i), PositionOf(j)) >= SquaredLatticeSpacing

\* C37: once startGenerationThread has sized the grid (gridInitialized), the
\* dimensions isValidCoordinate uses are those computed from the locked
\* boundary, whatever start, stop and resetOctahedra calls follow.
C37_GridKeepsBoundaryDimensions ==
    gridInitialized
    => /\ grid.gridLength = startGridLength(boundaryManager)
       /\ grid.gridWidth = startGridWidth(boundaryManager)
       /\ grid.gridHeight = startGridHeight(boundaryManager)

\* the positions of the entries getOccupiedNeighbors returns for pos
OccupiedPositions(pos) ==
    { getOccupiedNeighbors(grid, pos)[i].position
      : i \in 1..Len(getOccupiedNeighbors(grid, pos)) }

\* the available and the occupied neighbours of pos are as many as the
\* entries of its neighbour list, and an entry is available exactly when its
\* slot is free
NeighborListSplitsBySlot(pos) ==
    /\ Len(getAvailableNeighbors(grid, pos)) + Len(getOccupiedNeighbors(grid, pos))
          = Len(getNeighborPositions(grid, pos, FALSE))
    /\ Len(getNeighborPositions(grid, pos, FALSE)) <= FullNeighborCount
    /\ \A q \in Range(getNeighborPositions(grid, pos, FALSE)) :
          (q \in Range(getAvailableNeighbors(grid, pos))) <=> ~isOccupied(grid, q)

NeighborListsSplitBySlot == \A pos \in ProbePositions : NeighborListSplitsBySlot(pos)

\* C38: for every position, each entry of getNeighborPositions is either an
\* entry of getAvailableNeighbors or the position of an entry of
\* getOccupiedNeighbors, never both, and the two lists together are as long
\* as the neighbour list, which has at most fourteen entries.
C38_NeighborsPartitioned ==
    \A pos \in ProbePositions :
        /\ NeighborListSplitsBySlot(pos)
        /\ \A q \in Range(getNeighborPositions(grid, pos, FALSE)) :
              (q \in Range(getAvailableNeighbors(grid, pos)))
                  <=> (q \notin OccupiedPositions(pos))

\* the ids of the cells the step appends to the store
AddedIds == size(transforms)..(size(transforms') - 1)

\* the cell id, added by the step, has a slot that is in the neighbour list
\* of the old cell parent, was free before the step and is inside the boundary
GrownFrom(id, parent) ==
    LET newPos == getPositionForIndex(grid', id)
    IN  /\ findCellIndex(grid', newPos) = id
        /\ newPos \in Range(getNeighborPositions(grid, PositionOf(parent), FALSE))
        /\ ~isOccupied(grid, newPos)
        /\ isPointWithinBoundary(boundaryManager, newPos)

\* every cell a growth tick adds is grown from some cell of the store
TicksGrowFromCells ==
    [][ GrowthTick => \A id \in AddedIds : \E parent \in CellIds : GrownFrom(id, parent) ]_vars

\* C39: every cell a growth tick adds occupies a slot that is in the
\* neighbour list of a cell that existed when the tick began, was free and
\* is inside the boundary; the older cell occupies a slot itself, so that
\* the neighbour steps back to a seed lead through occupied slots.
C39_GrowthConnected ==
    [][ GrowthTick
        => \A id \in AddedIds :
              \E parent \in CellIds : OwnsSlot(parent) /\ GrownFrom(id, parent) ]_vars

\* no cell of the store has an available neighbour inside the boundary
Saturated ==
    \A id \in CellIds :
        getAvailableNeighborPositions(M, boundaryManager, PositionOf(id)) = <<>>

\* C40: with the boundary fixed and the draws fair, the running growth loop
\* reaches a state in which no cell has an available in-boundary neighbour,
\* and from such a state on getCount() does not change.
C40_GrowthSaturates ==
    /\ (genPc = "loop") ~> Saturated
    /\ [][ (genPc # "none" /\ Saturated) => size(transforms') = size(transforms) ]_vars

\* the loop has made a pass on the full box: all five positions of the small
\* boundary hold a cell and the pass added none
C40_Witness ==
    /\ Saturated
    /\ hist.op = "trySpawningNewOctahedra"
    /\ hist.sizeBefore = 5
    /\ size(transforms) = 5
    /\ \A id \in CellIds : OwnsSlot(id)

====
